---- MODULE Spec2Model ----
(***************************************************************************)
(* Entity / Collection immutable data model, Pipeable.pipe and the lens    *)
(* combinators of dev-gasy/iterable-collection, over an explicit object    *)
(* heap so that aliasing, identity and copy-on-write are observable.       *)
(***************************************************************************)
EXTENDS Integers, Sequences, FiniteSets, TLC

VARIABLES heap, insts, last

vars == <<heap, insts, last>>

(***************************************************************************)
(* JavaScript values.  A value is an integer: 0 is undefined, -1 is null,  *)
(* 1 .. PrimBase-1 are object references (heap addresses), and integers    *)
(* from PrimBase up are primitives (strings and numbers of the test data). *)
(***************************************************************************)
Undefined == 0
Null == -1
PrimBase == 100

IsRef(v) == v >= 1 /\ v < PrimBase
IsNullish(v) == v = Undefined \/ v = Null

\* bound of the model: the number of instances a behaviour creates
MaxInsts == 3

Fields == {"_key", "id", "name", "nested", "count", "items"}

NoFields == [k \in Fields |-> Undefined]

\* an object literal { ...fs }
Obj(fs) ==
  [kind |-> "object", frozen |-> FALSE,
   fields |-> [k \in Fields |-> IF k \in DOMAIN fs THEN fs[k] ELSE Undefined],
   elems |-> <<>>]

\* an array literal [ ...es ]
Arr(es) == [kind |-> "array", frozen |-> FALSE, fields |-> NoFields, elems |-> es]

\* the contents of a cell, without its frozen flag
Content(cell) == [kind |-> cell.kind, fields |-> cell.fields, elems |-> cell.elems]

Alloc(h, cell) == [h |-> Append(h, cell), v |-> Len(h) + 1]

\* (mutant) Object.freeze leaves its argument as it is
ObjectFreeze_Noop(h, v) == h

\* Object.freeze(v): freezes an object in place and returns it; a
\* non-object argument is returned as it is
ObjectFreeze(h, v) ==
  IF IsRef(v) THEN [h EXCEPT ![v].frozen = TRUE] ELSE h

\* (mutant) a negative index counts from the end, as Array.prototype.at does
ArrayIndexFromEnd(elems, index) ==
  IF index >= 0 /\ index < Len(elems) THEN elems[index + 1]
  ELSE IF index < 0 /\ Len(elems) + index >= 0 THEN elems[Len(elems) + index + 1]
  ELSE Undefined

\* arr[index] of a JavaScript array: undefined outside 0 .. length-1
ArrayIndex(elems, index) ==
  IF index >= 0 /\ index < Len(elems) THEN elems[index + 1] ELSE Undefined

\* obj[key] of a value: undefined when the value holds no such property
GetProp(h, v, key) ==
  IF IsRef(v) /\ h[v].kind = "object" THEN h[v].fields[key] ELSE Undefined

(***************************************************************************)
(* The test data (test/model/Entity.test.ts, test/update.test.ts).         *)
(***************************************************************************)
Id1 == 101
Id2 == 102
Name1 == 111
Name2 == 112
Name3 == 113
NameX == 114
NameNew == 115
ParentName == 116
Count5 == 125
Count10 == 130
ItemA == 141
ItemC == 143

Key1 == 1
Items1 == 2
Nested1 == 3
Rec1 == 4
Key2 == 5
Rec2 == 6
Rec3 == 7
ParentRec == 8
InputArr == 9

DataHeap ==
  << Obj([id |-> Id1]),
     Arr(<<ItemA>>),
     Obj([count |-> Count5, items |-> Items1]),
     Obj([_key |-> Key1, name |-> Name1, nested |-> Nested1]),
     Obj([id |-> Id2]),
     Obj([_key |-> Key2, name |-> Name2]),
     Obj([name |-> Name3, nested |-> Null]),
     Obj([name |-> ParentName]),
     Arr(<<Rec1, Rec2, Rec3>>) >>

(***************************************************************************)
(* immer's produce(base, recipe): the recipe edits a draft of base; every  *)
(* node on the path of a write is copied on its first write (and the copy  *)
(* is linked into its parent's copy), nodes that are never written stay    *)
(* shared with base, and a recipe that changes nothing yields base itself. *)
(* A draft state is [h: the heap, n0: the heap size at the call, root].    *)
(***************************************************************************)
Fresh(d, a) == IsRef(a) /\ a > d.n0

\* one navigation step of a recipe: a property name, or an index when f = ""
StepGet(h, v, step) ==
  IF ~IsRef(v) THEN Undefined
  ELSE IF step.f # "" THEN (IF h[v].kind = "object" THEN h[v].fields[step.f] ELSE Undefined)
  ELSE (IF h[v].kind = "array" THEN ArrayIndex(h[v].elems, step.i) ELSE Undefined)

StepSet(h, a, step, v) ==
  IF step.f # "" THEN [h EXCEPT ![a].fields[step.f] = v]
  ELSE [h EXCEPT ![a].elems[step.i + 1] = v]

RECURSIVE ReadPath(_, _, _)
ReadPath(h, root, path) ==
  IF path = <<>> THEN root
  ELSE StepGet(h, ReadPath(h, root, SubSeq(path, 1, Len(path) - 1)), path[Len(path)])

ShallowCopy(cell) == [cell EXCEPT !.frozen = FALSE]

\* (mutant) the draft node is the base node itself: writes go to the original
DraftCopyInPlace(d, a) == [h |-> d.h, v |-> a]

\* the copy of one draft node: the node itself when it was already created
\* inside this produce call, a shallow copy of it otherwise
DraftCopy(d, a) ==
  IF Fresh(d, a) THEN [h |-> d.h, v |-> a] ELSE Alloc(d.h, ShallowCopy(d.h[a]))

\* the writable node at path (the path is known to lead to an object)
RECURSIVE Writable(_, _)
Writable(d, path) ==
  IF path = <<>>
  THEN LET c == DraftCopy(d, d.root)
       IN [d |-> [d EXCEPT !.h = c.h, !.root = c.v], a |-> c.v]
  ELSE LET par == Writable(d, SubSeq(path, 1, Len(path) - 1))
           step == path[Len(path)]
           c == DraftCopy(par.d, StepGet(par.d.h, par.a, step))
       IN [d |-> [par.d EXCEPT !.h = StepSet(c.h, par.a, step, c.v)], a |-> c.v]

\* arr.splice(start, count) as the remaining elements
SpliceElems(elems, start, count) ==
  LET s == IF start > Len(elems) THEN Len(elems) ELSE start
      e == IF s + count > Len(elems) THEN Len(elems) ELSE s + count
  IN SubSeq(elems, 1, s) \o SubSeq(elems, e + 1, Len(elems))

\* (mutant) an array write goes to the array the path leads to, uncopied
WriteElemsInPlace(d, path, es) ==
  [d EXCEPT !.h = [d.h EXCEPT ![ReadPath(d.h, d.root, path)].elems = es]]

WriteElems(d, path, es) ==
  LET w == Writable(d, path)
  IN [w.d EXCEPT !.h = [w.d.h EXCEPT ![w.a].elems = es]]

\* one statement of a recipe, run against the draft; a statement whose
\* target is missing is skipped, as the guarded callbacks of the tests do
ApplyEdit(d, e) ==
  LET t == ReadPath(d.h, d.root, e.path)
      isObj == IsRef(t) /\ d.h[t].kind = "object"
      isArr == IsRef(t) /\ d.h[t].kind = "array"
  IN CASE e.kind = "assign" ->
            IF ~isObj \/ d.h[t].fields[e.key] = e.val THEN d
            ELSE LET w == Writable(d, e.path)
                 IN [w.d EXCEPT !.h = [w.d.h EXCEPT ![w.a].fields[e.key] = e.val]]
       [] e.kind = "assignArr" ->
            IF ~isObj THEN d
            ELSE LET al == Alloc(d.h, Arr(e.elems))
                     w == Writable([d EXCEPT !.h = al.h], e.path)
                 IN [w.d EXCEPT !.h = [w.d.h EXCEPT ![w.a].fields[e.key] = al.v]]
       [] e.kind = "push" ->
            IF ~isArr THEN d
            ELSE WriteElems(d, e.path, Append(d.h[t].elems, e.val))
       [] e.kind = "pushNew" ->
            IF ~isArr THEN d
            ELSE LET al == Alloc(d.h, Obj([name |-> e.val]))
                 IN WriteElems([d EXCEPT !.h = al.h], e.path, Append(d.h[t].elems, al.v))
       [] e.kind = "splice" ->
            IF ~isArr \/ SpliceElems(d.h[t].elems, e.start, e.count) = d.h[t].elems THEN d
            ELSE WriteElems(d, e.path, SpliceElems(d.h[t].elems, e.start, e.count))
       [] e.kind = "shiftPush" ->
            IF ~isArr \/ d.h[t].elems = <<>> THEN d
            ELSE WriteElems(d, e.path, Append(Tail(d.h[t].elems), Head(d.h[t].elems)))
       [] OTHER -> d

RECURSIVE ApplyRecipe(_, _)
ApplyRecipe(d, recipe) ==
  IF recipe = <<>> THEN d
  ELSE ApplyRecipe(ApplyEdit(d, Head(recipe)), Tail(recipe))

produce(h, base, recipe) ==
  LET d == ApplyRecipe([h |-> h, n0 |-> Len(h), root |-> base], recipe)
  IN [h |-> d.h, v |-> d.root]

(***************************************************************************)
(* Recipes: the edit callbacks of the tests, as statement lists.           *)
(***************************************************************************)
Prop(f) == [f |-> f, i |-> 0]
Idx(i) == [f |-> "", i |-> i]

Assign(path, key, val) == [kind |-> "assign", path |-> path, key |-> key, val |-> val]
AssignArr(path, key, elems) == [kind |-> "assignArr", path |-> path, key |-> key, elems |-> elems]
Push(path, val) == [kind |-> "push", path |-> path, val |-> val]
PushNew(path, val) == [kind |-> "pushNew", path |-> path, val |-> val]
Splice(path, start, count) == [kind |-> "splice", path |-> path, start |-> start, count |-> count]
ShiftPush(path) == [kind |-> "shiftPush", path |-> path]

EntityRecipes ==
  { <<Assign(<<>>, "name", NameX)>>,
    <<Assign(<<Prop("nested")>>, "count", Count10),
      Push(<<Prop("nested"), Prop("items")>>, ItemC)>>,
    <<AssignArr(<<Prop("nested")>>, "items", <<>>),
      Push(<<Prop("nested"), Prop("items")>>, ItemC)>> }

CollectionRecipes ==
  { <<Assign(<<Idx(1)>>, "name", NameX), PushNew(<<>>, NameNew)>>,
    <<Splice(<<>>, 1, 1)>>,
    <<ShiftPush(<<>>)>>,
    <<Assign(<<Idx(0), Prop("nested")>>, "count", Count10)>> }

(***************************************************************************)
(* Instances.  insts is the sequence of Entity and Collection instances    *)
(* created so far; an instance's identity is its position.                 *)
(***************************************************************************)
EntityClasses == {"TestEntity", "Quote"}
CollectionClasses == {"TestCollection", "Quotes"}

EntityInst(class, value, parent) ==
  [type |-> "Entity", class |-> class, value |-> value, values |-> Undefined,
   parent |-> parent]

CollectionInst(class, values, parent) ==
  [type |-> "Collection", class |-> class, value |-> Undefined, values |-> values,
   parent |-> parent]

\* Entity constructor: both arguments are frozen (at their top level)
EntityCtor(h, class, value, parent) ==
  [h |-> ObjectFreeze(ObjectFreeze(h, value), parent),
   e |-> EntityInst(class, value, parent)]

\* Collection constructor on the elements es of its argument: the backing
\* sequence is a frozen copy, the parent is frozen when there is one
CollectionCtor(h, class, es, parent) ==
  LET al == Alloc(h, [Arr(es) EXCEPT !.frozen = TRUE])
      p == IF IsNullish(parent) THEN Undefined ELSE parent
  IN [h |-> ObjectFreeze(al.h, p), c |-> CollectionInst(class, al.v, p)]

\* a call that returns a new instance: the instance is added to insts
Returning(h, insts0, inst) ==
  [heap |-> h, insts |-> Append(insts0, inst), result |-> Len(insts0) + 1]

NewEntity(st, class, value, parent) ==
  LET k == EntityCtor(st.heap, class, value, parent)
  IN Returning(k.h, st.insts, k.e)

NewCollection(st, class, es, parent) ==
  LET k == CollectionCtor(st.heap, class, es, parent)
  IN Returning(k.h, st.insts, k.c)

(***************************************************************************)
(* Entity                                                                  *)
(***************************************************************************)
\* (mutant) exists tests this.value != null
exists_NotNull(e) == e.value # Null

exists(e) == e.value # Undefined
isEmpty(e) == e.value = Undefined
raw(e) == e.value

\* get name(): this.value?.name
Entity_name(h, e) == IF IsNullish(e.value) THEN Undefined ELSE GetProp(h, e.value, "name")

\* id(): this.value?._key?.id
Entity_id(h, e) ==
  IF IsNullish(e.value) THEN Undefined
  ELSE IF IsNullish(GetProp(h, e.value, "_key")) THEN Undefined
  ELSE GetProp(h, GetProp(h, e.value, "_key"), "id")

\* (mutant) update treats only null as "no value"
NoValueNullOnly(e) == e.value = Null

\* the guard of update: !this.value
NoValue(e) == IsNullish(e.value)

\* (mutant) the base class is constructed instead of this.constructor
ConstructorOfBase(x) == x.type

\* this.constructor of an instance
ConstructorOf(x) == x.class

Entity_update(st, i, recipe) ==
  LET e == st.insts[i]
  IN IF NoValue(e) THEN [heap |-> st.heap, insts |-> st.insts, result |-> i]
     ELSE LET pr == produce(st.heap, e.value, recipe)
          IN NewEntity([heap |-> pr.h, insts |-> st.insts], ConstructorOf(e), pr.v, e.parent)

\* the invocations of the updater by update: none without a value, else one
Entity_update_log(st, i) ==
  IF NoValue(st.insts[i]) THEN <<>> ELSE <<[value |-> st.insts[i].value, index |-> 0]>>

Entity_copy(st, i) ==
  LET e == st.insts[i]
  IN NewEntity(st, ConstructorOf(e), e.value, e.parent)

(***************************************************************************)
(* Collection                                                              *)
(***************************************************************************)
\* the Entity subclass a Collection subclass materializes
EntityClassOf(class) == IF class = "Quotes" THEN "Quote" ELSE "TestEntity"

\* createEntity(data) of the concrete subclasses: new E(data, this.parent)
createEntity(h, c, data) == EntityCtor(h, EntityClassOf(c.class), data, c.parent)

\* create(values): new this.constructor(values, this.parent)
create(st, c, es) == NewCollection(st, ConstructorOf(c), es, c.parent)

length(h, c) == Len(h[c.values].elems)

Collection_at(st, i, index) ==
  LET c == st.insts[i]
      k == createEntity(st.heap, c, ArrayIndex(st.heap[c.values].elems, index))
  IN Returning(k.h, st.insts, k.e)

\* the caller's predicates, mappers and reducers
Predicates == {"indexIsOne", "hasNested"}

Pred(p, h, e, index) ==
  CASE p = "indexIsOne" -> index = 1
    [] p = "hasNested" -> IsRef(GetProp(h, e.value, "nested"))
    [] OTHER -> TRUE

Mappers == {"name"}

Mapper(m, h, e, index) ==
  IF m = "name" THEN GetProp(h, e.value, "name") ELSE PrimBase + index

Reducers == {"sumIndex"}

Reducer(r, acc, h, e, index) ==
  IF r = "count" THEN acc + 1 ELSE acc + index

\* the loop of filter from index i on: lp is [h, items, log]
RECURSIVE FilterLoop(_, _, _, _)
FilterLoop(lp, c, p, i) ==
  IF ~(i < Len(lp.h[c.values].elems)) THEN lp
  ELSE LET v == lp.h[c.values].elems[i + 1]
           k == createEntity(lp.h, c, v)
           call == [value |-> k.e.value, index |-> i]
       IN FilterLoop([h |-> k.h,
                      items |-> IF Pred(p, k.h, k.e, i) THEN Append(lp.items, v) ELSE lp.items,
                      log |-> Append(lp.log, call)],
                     c, p, i + 1)

\* (mutant) the loop of filter starts at index 1
Collection_filter_SkipFirst(st, i, p) ==
  LET c == st.insts[i]
      lp == FilterLoop([h |-> st.heap, items |-> <<>>, log |-> <<>>], c, p, 1)
      r == create([heap |-> lp.h, insts |-> st.insts], c, lp.items)
  IN [heap |-> r.heap, insts |-> r.insts, result |-> r.result, log |-> lp.log]

Collection_filter(st, i, p) ==
  LET c == st.insts[i]
      lp == FilterLoop([h |-> st.heap, items |-> <<>>, log |-> <<>>], c, p, 0)
      r == create([heap |-> lp.h, insts |-> st.insts], c, lp.items)
  IN [heap |-> r.heap, insts |-> r.insts, result |-> r.result, log |-> lp.log]

\* Array.prototype.map / reduce over the backing sequence, materializing
\* one entity per element: lp is [h, out, log]
RECURSIVE MapLoop(_, _, _, _)
MapLoop(lp, c, m, i) ==
  IF ~(i < Len(lp.h[c.values].elems)) THEN lp
  ELSE LET k == createEntity(lp.h, c, lp.h[c.values].elems[i + 1])
       IN MapLoop([h |-> k.h,
                   out |-> Append(lp.out, Mapper(m, k.h, k.e, i)),
                   log |-> Append(lp.log, [value |-> k.e.value, index |-> i])],
                  c, m, i + 1)

Collection_map(st, i, m) ==
  MapLoop([h |-> st.heap, out |-> <<>>, log |-> <<>>], st.insts[i], m, 0)

RECURSIVE ReduceLoop(_, _, _, _)
ReduceLoop(lp, c, r, i) ==
  IF ~(i < Len(lp.h[c.values].elems)) THEN lp
  ELSE LET k == createEntity(lp.h, c, lp.h[c.values].elems[i + 1])
       IN ReduceLoop([h |-> k.h,
                      out |-> Reducer(r, lp.out, k.h, k.e, i),
                      log |-> Append(lp.log, [value |-> k.e.value, index |-> i])],
                     c, r, i + 1)

Collection_reduce(st, i, r, initialValue) ==
  ReduceLoop([h |-> st.heap, out |-> initialValue, log |-> <<>>], st.insts[i], r, 0)

\* toArray(): one materialized entity per element, in order
RECURSIVE ToArrayLoop(_, _, _)
ToArrayLoop(lp, c, i) ==
  IF ~(i < Len(lp.h[c.values].elems)) THEN lp
  ELSE LET k == createEntity(lp.h, c, lp.h[c.values].elems[i + 1])
       IN ToArrayLoop([h |-> k.h, out |-> Append(lp.out, k.e)], c, i + 1)

Collection_toArray(st, i) ==
  ToArrayLoop([h |-> st.heap, out |-> <<>>], st.insts[i], 0)

\* the generator [Symbol.iterator]() run to completion, as for-of does:
\* one materialized entity per index, in order
RECURSIVE IterateLoop(_, _, _)
IterateLoop(lp, c, i) ==
  IF ~(i < Len(lp.h[c.values].elems)) THEN lp
  ELSE LET k == createEntity(lp.h, c, lp.h[c.values].elems[i + 1])
       IN IterateLoop([h |-> k.h, out |-> Append(lp.out, k.e)], c, i + 1)

Collection_iterate(st, i) ==
  IterateLoop([h |-> st.heap, out |-> <<>>], st.insts[i], 0)

\* (mutant) update builds the new collection from the receiver's own values
Collection_update_Stale(st, i, recipe) ==
  LET c == st.insts[i]
      items == produce(st.heap, c.values, recipe)
  IN create([heap |-> items.h, insts |-> st.insts], c, st.heap[c.values].elems)

Collection_update(st, i, recipe) ==
  LET c == st.insts[i]
      items == produce(st.heap, c.values, recipe)
  IN create([heap |-> items.h, insts |-> st.insts], c, items.h[items.v].elems)

\* (mutant) copy of an immutable collection returns the collection itself
Collection_copy_This(st, i) ==
  [heap |-> st.heap, insts |-> st.insts, result |-> i]

Collection_copy(st, i) ==
  LET c == st.insts[i]
  IN create(st, c, st.heap[c.values].elems)

(***************************************************************************)
(* Pipeable.pipe(...fns) = fns.reduce((value, fn) => fn(value), this).     *)
(* A piped value is an instance [t: "inst", v: its position] or a number   *)
(* [t: "num", v]; the caller's functions are getValue (the length of a     *)
(* collection, 1 or 0 for an entity that exists or not), double and inc.   *)
(***************************************************************************)
PipeFns == {"getValue", "double", "inc"}

\* the longest typed overload of pipe takes 16 functions
PipeArity == 16

\* bound of the model: every function list up to this length is piped
MaxPipe == 3

PipeNum(st, x) ==
  IF x.t = "num" THEN x.v
  ELSE IF st.insts[x.v].type = "Collection" THEN length(st.heap, st.insts[x.v])
  ELSE IF exists(st.insts[x.v]) THEN 1 ELSE 0

PipeFn(f, st, x) ==
  CASE f = "getValue" -> [t |-> "num", v |-> PipeNum(st, x)]
    [] f = "double" -> [t |-> "num", v |-> 2 * PipeNum(st, x)]
    [] OTHER -> [t |-> "num", v |-> PipeNum(st, x) + 1]

\* Array.prototype.reduce with an initial value: lp is [value, log]
RECURSIVE PipeReduce(_, _, _, _)
PipeReduce(lp, st, fns, i) ==
  IF ~(i < Len(fns)) THEN lp
  ELSE LET ret == PipeFn(fns[i + 1], st, lp.value)
       IN PipeReduce([value |-> ret,
                      log |-> Append(lp.log, [fn |-> fns[i + 1], arg |-> lp.value, ret |-> ret])],
                     st, fns, i + 1)

\* (mutant) the functions are applied right to left
RECURSIVE PipeReduceRight(_, _, _, _)
PipeReduceRight(lp, st, fns, i) ==
  IF ~(i < Len(fns)) THEN lp
  ELSE LET f == fns[Len(fns) - i]
           ret == PipeFn(f, st, lp.value)
       IN PipeReduceRight([value |-> ret,
                           log |-> Append(lp.log, [fn |-> f, arg |-> lp.value, ret |-> ret])],
                          st, fns, i + 1)

pipe_RightToLeft(st, i, fns) ==
  PipeReduceRight([value |-> [t |-> "inst", v |-> i], log |-> <<>>], st, fns, 0)

pipe(st, i, fns) ==
  PipeReduce([value |-> [t |-> "inst", v |-> i], log |-> <<>>], st, fns, 0)

(***************************************************************************)
(* Lenses (src/lens/lens.ts).  A lens is <<op, key, i>> for prop, safeProp *)
(* (key), index, safeIndex (i) and find (key names the predicate), or      *)
(* <<"compose", lens1, lens2>>.  get returns a value, null when absent;    *)
(* set and modify return [h: the heap after the call, v: the result].      *)
(***************************************************************************)
IsArray(h, v) == IsRef(v) /\ h[v].kind = "array"

\* { ...s, [key]: a }: the own properties of s (none for a primitive), with key
SpreadWith(h, s, key, a) ==
  [kind |-> "object", frozen |-> FALSE,
   fields |-> [(IF IsRef(s) THEN h[s].fields ELSE NoFields) EXCEPT ![key] = a],
   elems |-> IF IsRef(s) THEN h[s].elems ELSE <<>>]

\* newArr[i] = item on a copy of elems: a slot in range is replaced, a slot
\* past the end extends the array over holes, a negative i is no element
AssignIndex(elems, i, item) ==
  IF i < 0 THEN elems
  ELSE [j \in 1 .. (IF i + 1 > Len(elems) THEN i + 1 ELSE Len(elems)) |->
          IF j = i + 1 THEN item ELSE IF j <= Len(elems) THEN elems[j] ELSE Undefined]

\* the caller's functions: a predicate of find, a function of modify
LensPred(p, h, item) ==
  CASE p = "hasNested" -> IsRef(GetProp(h, item, "nested"))
    [] p = "noNested" -> ~IsRef(GetProp(h, item, "nested"))
    [] OTHER -> FALSE

LensFn(f, v) == IF v >= PrimBase THEN v + 1 ELSE PrimBase

\* (mutant) the search runs from the end of the array
FirstMatch_FromEnd(p, h, elems) ==
  IF \E j \in DOMAIN elems : LensPred(p, h, elems[j])
  THEN CHOOSE j \in DOMAIN elems :
         /\ LensPred(p, h, elems[j])
         /\ \A k \in (j + 1) .. Len(elems) : ~LensPred(p, h, elems[k])
  ELSE 0

\* the index (from 1) of the first element satisfying the predicate, or 0
FirstMatch(p, h, elems) ==
  IF \E j \in DOMAIN elems : LensPred(p, h, elems[j])
  THEN CHOOSE j \in DOMAIN elems :
         /\ LensPred(p, h, elems[j])
         /\ \A k \in 1 .. (j - 1) : ~LensPred(p, h, elems[k])
  ELSE 0

Same(h, s) == [h |-> h, v |-> s]

prop_get(key, h, s) ==
  IF ~IsNullish(s) /\ GetProp(h, s, key) # Undefined THEN GetProp(h, s, key) ELSE Null

\* (mutant) the spread written after the key: { [key]: a, ...s }
prop_set_SpreadLast(key, h, s, a) ==
  IF IsNullish(s) THEN Alloc(h, Obj([k \in {key} |-> a]))
  ELSE IF GetProp(h, s, key) # Undefined THEN Alloc(h, SpreadWith(h, s, key, GetProp(h, s, key)))
  ELSE Alloc(h, SpreadWith(h, s, key, a))

prop_set(key, h, s, a) ==
  IF IsNullish(s) THEN Alloc(h, Obj([k \in {key} |-> a]))
  ELSE Alloc(h, SpreadWith(h, s, key, a))

prop_modify(key, h, s, f) ==
  IF IsNullish(s) THEN Same(h, s)
  ELSE IF GetProp(h, s, key) # Undefined
       THEN Alloc(h, SpreadWith(h, s, key, LensFn(f, GetProp(h, s, key))))
       ELSE Same(h, s)

safeProp_get(key, h, s) ==
  IF IsNullish(s) THEN Null
  ELSE IF GetProp(h, s, key) # Undefined THEN GetProp(h, s, key) ELSE Null

safeProp_set(key, h, s, a) ==
  IF IsNullish(s) THEN Alloc(h, Obj([k \in {key} |-> a]))
  ELSE Alloc(h, SpreadWith(h, s, key, a))

\* (mutant) modify without the test of the field: f is applied to undefined
safeProp_modify_Unguarded(key, h, s, f) ==
  IF IsNullish(s) THEN Same(h, s)
  ELSE Alloc(h, SpreadWith(h, s, key, LensFn(f, GetProp(h, s, key))))

safeProp_modify(key, h, s, f) ==
  IF IsNullish(s) THEN Same(h, s)
  ELSE IF GetProp(h, s, key) # Undefined
       THEN Alloc(h, SpreadWith(h, s, key, LensFn(f, GetProp(h, s, key))))
       ELSE Same(h, s)

index_get(i, h, arr) ==
  IF IsArray(h, arr) /\ i >= 0 /\ i < Len(h[arr].elems) THEN h[arr].elems[i + 1] ELSE Null

\* (mutant) the slot is assigned in the source array, without slice()
index_set_InPlace(i, h, arr, item) ==
  IF ~IsArray(h, arr) THEN Alloc(h, Arr(<<item>>))
  ELSE [h |-> [h EXCEPT ![arr].elems = AssignIndex(h[arr].elems, i, item)], v |-> arr]

index_set(i, h, arr, item) ==
  IF ~IsArray(h, arr) THEN Alloc(h, Arr(<<item>>))
  ELSE Alloc(h, Arr(AssignIndex(h[arr].elems, i, item)))

index_modify(i, h, arr, f) ==
  IF ~IsArray(h, arr) \/ i < 0 \/ i >= Len(h[arr].elems) THEN Same(h, arr)
  ELSE Alloc(h, Arr(AssignIndex(h[arr].elems, i, LensFn(f, h[arr].elems[i + 1]))))

safeIndex_get(i, h, arr) ==
  IF IsArray(h, arr) /\ i >= 0 /\ i < Len(h[arr].elems) THEN h[arr].elems[i + 1] ELSE Null

safeIndex_set(i, h, arr, item) ==
  IF ~IsArray(h, arr) THEN Alloc(h, Arr(<<item>>))
  ELSE Alloc(h, Arr(AssignIndex(h[arr].elems, i, item)))

safeIndex_modify(i, h, arr, f) ==
  IF ~IsArray(h, arr) \/ i < 0 \/ i >= Len(h[arr].elems) THEN Same(h, arr)
  ELSE Alloc(h, Arr(AssignIndex(h[arr].elems, i, LensFn(f, h[arr].elems[i + 1]))))

find_get(p, h, arr) ==
  IF ~IsArray(h, arr) THEN Null
  ELSE IF FirstMatch(p, h, h[arr].elems) # 0
       THEN h[arr].elems[FirstMatch(p, h, h[arr].elems)]
       ELSE Null

find_set(p, h, arr, item) ==
  IF ~IsArray(h, arr) THEN Alloc(h, Arr(<<item>>))
  ELSE IF FirstMatch(p, h, h[arr].elems) # 0
       THEN Alloc(h, Arr(AssignIndex(h[arr].elems, FirstMatch(p, h, h[arr].elems) - 1, item)))
       ELSE Alloc(h, Arr(Append(h[arr].elems, item)))

find_modify(p, h, arr, f) ==
  IF ~IsArray(h, arr) THEN Same(h, arr)
  ELSE LET m == FirstMatch(p, h, h[arr].elems)
       IN IF m # 0
          THEN Alloc(h, Arr(AssignIndex(h[arr].elems, m - 1, LensFn(f, h[arr].elems[m]))))
          ELSE Same(h, arr)

\* the function f itself, as a value
FnValue == 199

\* modify of the identity lens of view: (_, f) => f
view_modify(h, s, f) == Same(h, FnValue)

\* modify of L.id(): (_, f) => f(null)
id_modify(h, s, f) == Same(h, LensFn(f, Null))

RECURSIVE LensGet(_, _, _)
RECURSIVE LensSet(_, _, _, _)
RECURSIVE LensModify(_, _, _, _)

compose_get(lens1, lens2, h, s) ==
  LET a == LensGet(lens1, h, s)
  IN IF a # Null THEN LensGet(lens2, h, a) ELSE Null

\* (mutant) set does not look at the outer focus
compose_set_Unguarded(lens1, lens2, h, s, b) ==
  LET a == LensGet(lens1, h, s)
      in == LensSet(lens2, h, a, b)
  IN LensSet(lens1, in.h, s, in.v)

compose_set(lens1, lens2, h, s, b) ==
  LET a == LensGet(lens1, h, s)
  IN IF a # Null
     THEN LET in == LensSet(lens2, h, a, b)
          IN LensSet(lens1, in.h, s, in.v)
     ELSE Same(h, s)

compose_modify(lens1, lens2, h, s, f) ==
  LET a == LensGet(lens1, h, s)
      b == LensGet(lens2, h, a)
  IN IF a # Null /\ b # Null
     THEN LET in == LensSet(lens2, h, a, LensFn(f, b))
          IN LensSet(lens1, in.h, s, in.v)
     ELSE Same(h, s)

LensGet(l, h, s) ==
  CASE l[1] = "prop" -> prop_get(l[2], h, s)
    [] l[1] = "safeProp" -> safeProp_get(l[2], h, s)
    [] l[1] = "index" -> index_get(l[3], h, s)
    [] l[1] = "safeIndex" -> safeIndex_get(l[3], h, s)
    [] l[1] = "find" -> find_get(l[2], h, s)
    [] l[1] = "id" -> s
    [] l[1] = "transform" -> (IF s # Null THEN LensFn(l[2], s) ELSE Null)
    [] l[1] = "L.id" -> s
    [] l[1] = "lens" -> LensGet(l[2], h, s)
    [] OTHER -> compose_get(l[2], l[3], h, s)

LensSet(l, h, s, a) ==
  CASE l[1] = "prop" -> prop_set(l[2], h, s, a)
    [] l[1] = "safeProp" -> safeProp_set(l[2], h, s, a)
    [] l[1] = "index" -> index_set(l[3], h, s, a)
    [] l[1] = "safeIndex" -> safeIndex_set(l[3], h, s, a)
    [] l[1] = "find" -> find_set(l[2], h, s, a)
    [] l[1] \in {"id", "L.id"} -> Same(h, a)
    [] l[1] = "lens" -> LensSet(l[2], h, s, a)
    [] OTHER -> compose_set(l[2], l[3], h, s, a)

LensModify(l, h, s, f) ==
  CASE l[1] = "prop" -> prop_modify(l[2], h, s, f)
    [] l[1] = "safeProp" -> safeProp_modify(l[2], h, s, f)
    [] l[1] = "index" -> index_modify(l[3], h, s, f)
    [] l[1] = "safeIndex" -> safeIndex_modify(l[3], h, s, f)
    [] l[1] = "find" -> find_modify(l[2], h, s, f)
    [] l[1] = "id" -> view_modify(h, s, f)
    [] l[1] = "L.id" -> id_modify(h, s, f)
    [] l[1] = "lens" ->
         (IF LensGet(l[2], h, s) # Null
          THEN LensSet(l[2], h, s, LensFn(f, LensGet(l[2], h, s)))
          ELSE Same(h, s))
    [] OTHER -> compose_modify(l[2], l[3], h, s, f)

\* the lenses applied: every composition, in every association, of up to
\* MaxChain of these lenses
MaxChain == 3

LensAtoms ==
  { <<"prop", "nested", 0>>, <<"safeProp", "items", 0>>, <<"index", "", 1>>,
    <<"safeIndex", "", 0>>, <<"find", "hasNested", 0>> }

RECURSIVE LensTrees(_)
LensTrees(n) ==
  IF n = 1 THEN LensAtoms
  ELSE UNION {{<<"compose", a, b>> : a \in LensTrees(k), b \in LensTrees(n - k)} :
                k \in 1 .. (n - 1)}

Lenses == UNION {LensTrees(n) : n \in 1 .. MaxChain}

LensSources == {Undefined, Null, Name1, Rec1, Rec2, Rec3, Nested1, InputArr}

\* the identity lenses of view and of L.id(), and lenses made by
\* lens(getter, setter) from the get and the set of a property and an index
OtherLenses ==
  { <<"id", "", 0>>, <<"L.id", "", 0>>,
    <<"lens", <<"prop", "nested", 0>>, 0>>, <<"lens", <<"index", "", 1>>, 0>> }

\* the single lenses applied on their own: every key of the records, indexes
\* below, inside and past the arrays, predicates with one match, two or none
AtomLenses ==
  {<<k, key, 0>> : k \in {"prop", "safeProp"}, key \in {"name", "nested", "items"}}
    \cup {<<k, "", i>> : k \in {"index", "safeIndex"}, i \in {-1, 0, 1, 2, 3, 5}}
    \cup {<<"find", p, 0>> : p \in {"hasNested", "noNested", "none"}}

(***************************************************************************)
(* FluentNavigator (fluent.ts): a wrapper holding a value, data.  A method *)
(* is modelled on the heap and the held value; its outcome is [h, v,       *)
(* thrown]: the heap after the call, the value returned or held by the     *)
(* wrapper returned, and whether the call ended by throwing instead.       *)
(***************************************************************************)
\* malformed data: a record whose nested is null and whose items hold a null
MalItems == 10
MalRec == 11

FluentHeap ==
  DataHeap \o << Arr(<<Rec1, Null, Rec2>>),
                 Obj([name |-> Name1, nested |-> Null, items |-> MalItems]) >>

FluentSources == {Undefined, Null, Name1, Rec1, MalRec, MalItems}

Returns(h, v) == [h |-> h, v |-> v, thrown |-> FALSE]
Throws(h) == [h |-> h, v |-> Undefined, thrown |-> TRUE]

\* v ?? null
Coalesce(v) == IF IsNullish(v) THEN Null ELSE v

\* the caller's callbacks.  A predicate or mapper that reads a property of
\* its item throws a TypeError on a null or undefined item.
NavPreds == {"nameIsFirst", "hasNestedSafe"}
NavPredThrows(p, h, item) == p = "nameIsFirst" /\ IsNullish(item)
NavPred(p, h, item) ==
  IF p = "nameIsFirst" THEN GetProp(h, item, "name") = Name1
  ELSE ~IsNullish(item) /\ ~IsNullish(GetProp(h, item, "nested"))

NavMappers == {"name", "index"}
NavMapperThrows(m, h, item) == m = "name" /\ IsNullish(item)
NavMapper(m, h, item, i) ==
  IF m = "name" THEN GetProp(h, item, "name") ELSE PrimBase + i

\* transformers: v => v.nonexistentMethod() always throws; describe is
\* v => typeof v === "object" ? 5 : "Updated"
Transformers == {"describe", "nonexistentMethod"}
TransformerThrows(f, v) == f = "nonexistentMethod"
Transformer(f, v) == IF IsRef(v) THEN Count5 ELSE NameX

\* side effects and predicates on the held value
TapFns == {"log", "throws"}
WherePreds == {"isObject", "throws"}

\* (mutant) get without the check of this.data: reading a property of null
\* or undefined throws a TypeError
FluentNavigator_get_Unguarded(h, data, key) ==
  IF IsNullish(data) THEN Throws(h)
  ELSE Returns(h, Coalesce(GetProp(h, data, key)))

FluentNavigator_get(h, data, key) ==
  IF IsNullish(data) THEN Returns(h, Null)
  ELSE Returns(h, Coalesce(GetProp(h, data, key)))

\* (mutant) at as Array.prototype.at: a negative index counts from the end
FluentNavigator_at_FromEnd(h, data, index) ==
  IF IsNullish(data) \/ ~IsArray(h, data) THEN Returns(h, Null)
  ELSE Returns(h, Coalesce(ArrayIndexFromEnd(h[data].elems, index)))

FluentNavigator_at(h, data, index) ==
  IF IsNullish(data) \/ ~IsArray(h, data) THEN Returns(h, Null)
  ELSE IF index < 0 \/ index >= Len(h[data].elems) THEN Returns(h, Null)
  ELSE Returns(h, Coalesce(h[data].elems[index + 1]))

\* (mutant) transform without the try/catch
FluentNavigator_transform_Uncaught(h, data, f) ==
  IF IsNullish(data) THEN Returns(h, Null)
  ELSE IF TransformerThrows(f, data) THEN Throws(h)
  ELSE Returns(h, Transformer(f, data))

FluentNavigator_transform(h, data, f) ==
  IF IsNullish(data) THEN Returns(h, Null)
  ELSE IF TransformerThrows(f, data) THEN Returns(h, Null)
  ELSE Returns(h, Transformer(f, data))

\* the elements on which the callback is called before one returns true
\* (all of them when none does), as Array.prototype.find calls it
FindCalls(p, h, elems) ==
  {j \in DOMAIN elems :
     \A k \in 1 .. (j - 1) : NavPredThrows(p, h, elems[k]) \/ ~NavPred(p, h, elems[k])}

\* (mutant) filter answers absent for a value that is no array, as find does
FluentNavigator_filter_Absent(h, data, p) ==
  IF IsNullish(data) \/ ~IsArray(h, data) THEN Returns(h, Null)
  ELSE LET elems == h[data].elems
       IN IF \E j \in DOMAIN elems : NavPredThrows(p, h, elems[j]) THEN Throws(h)
          ELSE LET al == Alloc(h, Arr(SelectSeq(elems, LAMBDA x : NavPred(p, h, x))))
               IN Returns(al.h, al.v)

FluentNavigator_filter(h, data, p) ==
  IF IsNullish(data) \/ ~IsArray(h, data) THEN LET al == Alloc(h, Arr(<<>>)) IN Returns(al.h, al.v)
  ELSE LET elems == h[data].elems
       IN IF \E j \in DOMAIN elems : NavPredThrows(p, h, elems[j]) THEN Throws(h)
          ELSE LET al == Alloc(h, Arr(SelectSeq(elems, LAMBDA x : NavPred(p, h, x))))
               IN Returns(al.h, al.v)

FluentNavigator_find(h, data, p) ==
  IF IsNullish(data) \/ ~IsArray(h, data) THEN Returns(h, Null)
  ELSE LET elems == h[data].elems
           calls == FindCalls(p, h, elems)
           hits == {j \in calls : ~NavPredThrows(p, h, elems[j]) /\ NavPred(p, h, elems[j])}
       IN IF \E j \in calls : NavPredThrows(p, h, elems[j]) THEN Throws(h)
          ELSE IF hits = {} THEN Returns(h, Null)
          ELSE Returns(h, Coalesce(elems[CHOOSE j \in hits : TRUE]))

FluentNavigator_map(h, data, m) ==
  IF IsNullish(data) \/ ~IsArray(h, data) THEN LET al == Alloc(h, Arr(<<>>)) IN Returns(al.h, al.v)
  ELSE LET elems == h[data].elems
       IN IF \E j \in DOMAIN elems : NavMapperThrows(m, h, elems[j]) THEN Throws(h)
          ELSE LET al == Alloc(h, Arr([j \in DOMAIN elems |-> NavMapper(m, h, elems[j], j - 1)]))
               IN Returns(al.h, al.v)

FluentNavigator_exists(data) == ~IsNullish(data)

FluentNavigator_existsWhere(h, data, p) ==
  IF IsNullish(data) THEN FALSE
  ELSE IF p = "throws" THEN FALSE
  ELSE IsRef(data)

FluentNavigator_or(data, defaultValue) ==
  IF IsNullish(data) THEN defaultValue ELSE data

FluentNavigator_getValue(data) == data

\* tap: whether fn is called; an exception it throws is ignored
FluentNavigator_tap_calls(data) == ~IsNullish(data)

(***************************************************************************)
(* The state machine of the Entity / Collection model.  last describes the *)
(* most recent call: its receiver, argument, returned instance (result),   *)
(* callback invocations (log), returned plain value (out), and the heap    *)
(* contents and instances as they were when the call was made (pre).       *)
(***************************************************************************)
\* the contents of every cell of a heap
Snapshot(h) == [a \in 1 .. Len(h) |-> Content(h[a])]

Call(op, recv, arg, result, log, out) ==
  [op |-> op, recv |-> recv, arg |-> arg, result |-> result, log |-> log, out |-> out,
   thrown |-> FALSE, pre |-> [heap |-> Snapshot(heap), insts |-> insts]]

\* a call that ended by throwing: it returns nothing
Threw(op, recv, arg, log) ==
  [Call(op, recv, arg, 0, log, 0) EXCEPT !.thrown = TRUE]

NoCall ==
  [op |-> "none", recv |-> 0, arg |-> 0, result |-> 0, log |-> <<>>, out |-> 0,
   thrown |-> FALSE, pre |-> [heap |-> <<>>, insts |-> <<>>]]

st0 == [heap |-> heap, insts |-> insts]

Entities == {i \in DOMAIN insts : insts[i].type = "Entity"}
Collections == {i \in DOMAIN insts : insts[i].type = "Collection"}

Indexes == -1 .. 3

\* after construction: one entity and one collection, built from the test data
Init ==
  \E cls \in {<<"TestEntity", "TestCollection">>, <<"Quote", "Quotes">>},
     value \in {Undefined, Rec1}, parent \in {Undefined, ParentRec},
     values \in {Undefined, InputArr} :
    LET e == NewEntity([heap |-> DataHeap, insts |-> <<>>], cls[1], value, parent)
        c == NewCollection(e, cls[2],
                           IF IsRef(values) THEN e.heap[values].elems ELSE <<>>, parent)
    IN /\ heap = c.heap
       /\ insts = c.insts
       /\ last = NoCall

EntityUpdate ==
  \E i \in Entities, recipe \in EntityRecipes :
    LET r == Entity_update(st0, i, recipe)
    IN /\ Len(r.insts) <= MaxInsts
       /\ heap' = r.heap
       /\ insts' = r.insts
       /\ last' = Call("Entity.update", i, recipe, r.result, Entity_update_log(st0, i), 0)

EntityCopy ==
  \E i \in Entities :
    LET r == Entity_copy(st0, i)
    IN /\ Len(r.insts) <= MaxInsts
       /\ heap' = r.heap
       /\ insts' = r.insts
       /\ last' = Call("Entity.copy", i, 0, r.result, <<>>, 0)

CollectionAt ==
  \E i \in Collections, index \in Indexes :
    LET r == Collection_at(st0, i, index)
    IN /\ Len(r.insts) <= MaxInsts
       /\ heap' = r.heap
       /\ insts' = r.insts
       /\ last' = Call("Collection.at", i, index, r.result, <<>>, 0)

CollectionFilter ==
  \E i \in Collections, p \in Predicates :
    LET r == Collection_filter(st0, i, p)
    IN /\ Len(r.insts) <= MaxInsts
       /\ heap' = r.heap
       /\ insts' = r.insts
       /\ last' = Call("Collection.filter", i, p, r.result, r.log, 0)

CollectionMap ==
  \E i \in Collections, m \in Mappers :
    LET r == Collection_map(st0, i, m)
    IN /\ heap' = r.h
       /\ insts' = insts
       /\ last' = Call("Collection.map", i, m, 0, r.log, r.out)

CollectionReduce ==
  \E i \in Collections, rd \in Reducers :
    LET r == Collection_reduce(st0, i, rd, 0)
    IN /\ heap' = r.h
       /\ insts' = insts
       /\ last' = Call("Collection.reduce", i, rd, 0, r.log, r.out)

CollectionToArray ==
  \E i \in Collections :
    LET r == Collection_toArray(st0, i)
    IN /\ heap' = r.h
       /\ insts' = insts
       /\ last' = Call("Collection.toArray", i, 0, 0, <<>>, r.out)

CollectionIterate ==
  \E i \in Collections :
    LET r == Collection_iterate(st0, i)
    IN /\ heap' = r.h
       /\ insts' = insts
       /\ last' = Call("Collection.iterate", i, 0, 0, <<>>, r.out)

CollectionUpdate ==
  \E i \in Collections, recipe \in CollectionRecipes :
    LET r == Collection_update(st0, i, recipe)
    IN /\ Len(r.insts) <= MaxInsts
       /\ heap' = r.heap
       /\ insts' = r.insts
       /\ last' = Call("Collection.update", i, recipe, r.result, <<>>, 0)

CollectionCopy ==
  \E i \in Collections :
    LET r == Collection_copy(st0, i)
    IN /\ Len(r.insts) <= MaxInsts
       /\ heap' = r.heap
       /\ insts' = r.insts
       /\ last' = Call("Collection.copy", i, 0, r.result, <<>>, 0)

CollectionCreate ==
  \E i \in Collections, es \in {<<Rec2>>} :
    LET r == create(st0, insts[i], es)
    IN /\ Len(r.insts) <= MaxInsts
       /\ heap' = r.heap
       /\ insts' = r.insts
       /\ last' = Call("Collection.create", i, es, r.result, <<>>, 0)

\* the function lists piped: every list up to MaxPipe functions, and lists of
\* PipeArity functions that repeat a pair
SeqsUpTo(S, n) == UNION {[1 .. m -> S] : m \in 0 .. n}

PipeLists ==
  SeqsUpTo(PipeFns, MaxPipe)
    \cup {[k \in 1 .. PipeArity |-> pair[((k - 1) % 2) + 1]] : pair \in [1 .. 2 -> PipeFns]}

Pipe ==
  /\ last.op = "none"
  /\ \E i \in DOMAIN insts, fns \in PipeLists :
       LET r == pipe(st0, i, fns)
       IN /\ heap' = heap
          /\ insts' = insts
          /\ last' = Call("pipe", i, fns, 0, r.log, r.value)

(***************************************************************************)
(* The lens operations, each applied once to a lens, a source of the test  *)
(* data and an argument.                                                   *)
(***************************************************************************)
InitLens ==
  /\ heap = DataHeap
  /\ insts = <<>>
  /\ last = NoCall

LensArg(l, s, a, f) == [lens |-> l, s |-> s, a |-> a, f |-> f]

LensGetCall ==
  /\ last.op = "none"
  /\ \E l \in Lenses \cup AtomLenses \cup OtherLenses, s \in LensSources :
       /\ heap' = heap
       /\ insts' = insts
       /\ last' = Call("lens.get", 0, LensArg(l, s, Undefined, ""), 0, <<>>, LensGet(l, heap, s))

LensSetCall ==
  /\ last.op = "none"
  /\ \E l \in Lenses \cup AtomLenses \cup OtherLenses, s \in LensSources, a \in {NameX} :
       LET r == LensSet(l, heap, s, a)
       IN /\ heap' = r.h
          /\ insts' = insts
          /\ last' = Call("lens.set", 0, LensArg(l, s, a, ""), 0, <<>>, r.v)

LensModifyCall ==
  /\ last.op = "none"
  /\ \E l \in Lenses \cup AtomLenses \cup OtherLenses, s \in LensSources, f \in {"inc"} :
       LET r == LensModify(l, heap, s, f)
       IN /\ heap' = r.h
          /\ insts' = insts
          /\ last' = Call("lens.modify", 0, LensArg(l, s, Undefined, f), 0, <<>>, r.v)

\* P.get(P.set(s, x)) for P = prop(key)
RoundTripKeys == {"name", "nested"}
RoundTripValues == {Undefined, Null, NameX, Rec2}

PropSetThenGet ==
  /\ last.op = "none"
  /\ \E key \in RoundTripKeys, s \in LensSources, x \in RoundTripValues :
       LET r == prop_set(key, heap, s, x)
       IN /\ heap' = r.h
          /\ insts' = insts
          /\ last' = Call("prop.set.get", 0, LensArg(<<"prop", key, 0>>, s, x, ""), 0, <<>>,
                          prop_get(key, r.h, r.v))

NextLens ==
  \/ LensGetCall
  \/ LensSetCall
  \/ LensModifyCall
  \/ PropSetThenGet

SpecLens == InitLens /\ [][NextLens]_vars

Next ==
  \/ EntityUpdate
  \/ EntityCopy
  \/ CollectionAt
  \/ CollectionFilter
  \/ CollectionMap
  \/ CollectionReduce
  \/ CollectionToArray
  \/ CollectionIterate
  \/ CollectionUpdate
  \/ CollectionCopy
  \/ CollectionCreate

Spec == Init /\ [][Next]_vars

\* pipe alone, on the instances of the initial states
SpecPipe == Init /\ [][Pipe]_vars

(***************************************************************************)
(* Fluent navigation.  insts holds the receiver of the last call and the   *)
(* wrapper it returned; wrappers no chain refers to any more are dropped.  *)
(* last.recv is the receiver's position before the call (it is at 1        *)
(* after it) and last.result the position of the wrapper returned.         *)
(***************************************************************************)
NavigatorInst(data) == [type |-> "FluentNavigator", data |-> data]

\* (mutant) the held value is replaced in the receiver, which is returned
NewNavigator_InPlace(recv, data) ==
  [insts |-> <<[recv EXCEPT !.data = data]>>, result |-> 1]

\* new FluentNavigator(data), returned by a method of recv
NewNavigator(recv, data) ==
  [insts |-> <<recv, NavigatorInst(data)>>, result |-> 2]

\* bound of the model: the arrays that filter and map allocate in a behaviour
MaxArrays == 1

NavKeys == {"name", "nested", "items"}
NavIndexes == {-1, 0, 1, 3}
NavDefaults == {NameNew}

NavArg(key, index, fn) == [key |-> key, index |-> index, fn |-> fn]

Navigators == {i \in DOMAIN insts : insts[i].type = "FluentNavigator"}

\* a method that returns a new wrapper, or throws: r is its outcome
NavChain(op, i, arg, r, log) ==
  /\ heap' = r.h
  /\ IF r.thrown
     THEN /\ insts' = <<insts[i]>>
          /\ last' = Threw(op, i, arg, log)
     ELSE LET w == NewNavigator(insts[i], r.v)
          IN /\ insts' = w.insts
             /\ last' = Call(op, i, arg, w.result, log, r.v)

\* a method that returns a plain value
NavValue(op, i, arg, out, log) ==
  /\ heap' = heap
  /\ insts' = <<insts[i]>>
  /\ last' = Call(op, i, arg, 0, log, out)

NavGet ==
  \E i \in Navigators, key \in NavKeys :
    NavChain("nav.get", i, NavArg(key, 0, ""), FluentNavigator_get(heap, insts[i].data, key), <<>>)

NavAt ==
  \E i \in Navigators, index \in NavIndexes :
    NavChain("nav.at", i, NavArg("", index, ""), FluentNavigator_at(heap, insts[i].data, index), <<>>)

NavTransform ==
  \E i \in Navigators, f \in Transformers :
    NavChain("nav.transform", i, NavArg("", 0, f),
             FluentNavigator_transform(heap, insts[i].data, f),
             IF IsNullish(insts[i].data) THEN <<>> ELSE <<f>>)

NavFilter ==
  \E i \in Navigators, p \in NavPreds :
    /\ Len(heap) < Len(FluentHeap) + MaxArrays
    /\ NavChain("nav.filter", i, NavArg("", 0, p), FluentNavigator_filter(heap, insts[i].data, p), <<>>)

NavFind ==
  \E i \in Navigators, p \in NavPreds :
    NavChain("nav.find", i, NavArg("", 0, p), FluentNavigator_find(heap, insts[i].data, p), <<>>)

NavMap ==
  \E i \in Navigators, m \in NavMappers :
    /\ Len(heap) < Len(FluentHeap) + MaxArrays
    /\ NavChain("nav.map", i, NavArg("", 0, m), FluentNavigator_map(heap, insts[i].data, m), <<>>)

NavExists ==
  \E i \in Navigators :
    NavValue("nav.exists", i, NavArg("", 0, ""), FluentNavigator_exists(insts[i].data), <<>>)

NavExistsWhere ==
  \E i \in Navigators, p \in WherePreds :
    NavValue("nav.existsWhere", i, NavArg("", 0, p),
             FluentNavigator_existsWhere(heap, insts[i].data, p),
             IF IsNullish(insts[i].data) THEN <<>> ELSE <<p>>)

NavOr ==
  \E i \in Navigators, d \in NavDefaults :
    NavValue("nav.or", i, NavArg("", d, ""), FluentNavigator_or(insts[i].data, d), <<>>)

NavGetValue ==
  \E i \in Navigators :
    NavValue("nav.getValue", i, NavArg("", 0, ""), FluentNavigator_getValue(insts[i].data), <<>>)

\* tap returns this
NavTap ==
  \E i \in Navigators, fn \in TapFns :
    /\ heap' = heap
    /\ insts' = <<insts[i]>>
    /\ last' = Call("nav.tap", i, NavArg("", 0, fn), 1,
                    IF FluentNavigator_tap_calls(insts[i].data) THEN <<fn>> ELSE <<>>,
                    insts[i].data)

(***************************************************************************)
(* LensOps (lens.ts): a wrapper pairing a source with a lens.  The lens of *)
(* view(source) is <<"id", "", 0>>, the lens transform builds is           *)
(* <<"transform", fn, 0>>.                                                 *)
(***************************************************************************)
LensOpsInst(source, lens) == [type |-> "LensOps", source |-> source, lens |-> lens]

view(source) == LensOpsInst(source, <<"id", "", 0>>)

\* new LensOps(this.source, compose(this.lens, newLens)), returned by focus
LensOps_focus(recv, newLens) ==
  [insts |-> <<recv, LensOpsInst(recv.source, <<"compose", recv.lens, newLens>>)>>,
   result |-> 2]

RECURSIVE LensLeaves(_)
LensLeaves(l) == IF l[1] = "compose" THEN LensLeaves(l[2]) + LensLeaves(l[3]) ELSE 1

OpsSources == {Null, Rec1}
OpsKeys == {"nested"}
OpsIndexes == {0}
OpsLenses == {<<"index", "", 1>>}

LensOpsInsts == {i \in DOMAIN insts : insts[i].type = "LensOps"}

\* a chaining method: all of them return this.focus(newLens)
OpsChain(op, i, newLens) ==
  /\ LensLeaves(insts[i].lens) <= MaxChain
  /\ LET w == LensOps_focus(insts[i], newLens)
     IN /\ heap' = heap
        /\ insts' = w.insts
        /\ last' = Call(op, i, newLens, w.result, <<>>, 0)

OpsFocus == \E i \in LensOpsInsts, l \in OpsLenses : OpsChain("ops.focus", i, l)

OpsProp == \E i \in LensOpsInsts, key \in OpsKeys : OpsChain("ops.prop", i, <<"prop", key, 0>>)

OpsSafeProp ==
  \E i \in LensOpsInsts, key \in {"items"} : OpsChain("ops.safeProp", i, <<"safeProp", key, 0>>)

OpsAt ==
  \E i \in LensOpsInsts, index \in OpsIndexes : OpsChain("ops.at", i, <<"safeIndex", "", index>>)

OpsFindItem ==
  \E i \in LensOpsInsts, p \in {"hasNested"} : OpsChain("ops.findItem", i, <<"find", p, 0>>)

OpsTransform ==
  \E i \in LensOpsInsts, f \in {"inc"} : OpsChain("ops.transform", i, <<"transform", f, 0>>)

\* tap: f is called on a value that is not null, and its exception escapes;
\* tap returns this
OpsTap ==
  \E i \in LensOpsInsts, f \in TapFns :
    LET value == LensGet(insts[i].lens, heap, insts[i].source)
    IN /\ heap' = heap
       /\ insts' = <<insts[i]>>
       /\ last' = IF value # Null /\ f = "throws"
                  THEN Threw("ops.tap", i, f, <<f>>)
                  ELSE Call("ops.tap", i, f, 1, IF value # Null THEN <<f>> ELSE <<>>, value)

\* navigate(data), or view(source)
InitFluent ==
  /\ heap = FluentHeap
  /\ \/ \E s \in FluentSources : insts = <<NavigatorInst(s)>>
     \/ \E s \in OpsSources : insts = <<view(s)>>
  /\ last = NoCall

NextFluent ==
  \/ NavGet
  \/ NavAt
  \/ NavTransform
  \/ NavFilter
  \/ NavFind
  \/ NavMap
  \/ NavExists
  \/ NavExistsWhere
  \/ NavOr
  \/ NavGetValue
  \/ NavTap
  \/ OpsFocus
  \/ OpsProp
  \/ OpsSafeProp
  \/ OpsAt
  \/ OpsFindItem
  \/ OpsTransform
  \/ OpsTap

SpecFluent == InitFluent /\ [][NextFluent]_vars

(***************************************************************************)
(* The two fluent designs side by side.  insts is <<the navigator, the     *)
(* lens-backed wrapper>>, both made from one source; every step is taken   *)
(* on both (get / safeProp, at / at, find / findItem) and the terminal     *)
(* calls exists() and or(d) / getOr(d) are made on both.                   *)
(***************************************************************************)
\* an array with an undefined element: [rec, undefined]
HoleItems == 12

PairHeap == FluentHeap \o << Arr(<<Rec1, Undefined>>) >>

PairSources == FluentSources \cup {InputArr, HoleItems}

\* exists(): this.lens.get(this.source) !== null
LensOps_exists(h, ops) == LensGet(ops.lens, h, ops.source) # Null

\* getOr(defaultValue): value !== null ? value : defaultValue
LensOps_getOr(h, ops, defaultValue) ==
  LET value == LensGet(ops.lens, h, ops.source)
  IN IF value # Null THEN value ELSE defaultValue

InitPair ==
  /\ heap = PairHeap
  /\ \E s \in PairSources : insts = <<NavigatorInst(s), view(s)>>
  /\ last = NoCall

\* one chaining step on both wrappers: the navigator holds the new value,
\* the lens wrapper the composed lens
PairChain(op, arg, r, newLens) ==
  /\ LensLeaves(insts[2].lens) <= MaxChain
  /\ heap' = heap
  /\ insts' = <<NavigatorInst(r.v), LensOps_focus(insts[2], newLens).insts[2]>>
  /\ last' = Call(op, 1, arg, 0, <<>>, 0)

PairProp ==
  \E key \in NavKeys :
    PairChain("pair.prop", NavArg(key, 0, ""),
              FluentNavigator_get(heap, insts[1].data, key), <<"safeProp", key, 0>>)

PairAt ==
  \E index \in NavIndexes :
    PairChain("pair.at", NavArg("", index, ""),
              FluentNavigator_at(heap, insts[1].data, index), <<"safeIndex", "", index>>)

\* the predicate item => item?.nested != null, given to both
PairFind ==
  \E p \in {"hasNested"} :
    PairChain("pair.find", NavArg("", 0, p),
              FluentNavigator_find(heap, insts[1].data, p), <<"find", p, 0>>)

\* out: 1 for true, 0 for false, first the navigator's and then the lens
\* wrapper's answer
PairExists ==
  /\ heap' = heap
  /\ insts' = insts
  /\ last' = Call("pair.exists", 1, NavArg("", 0, ""), 0, <<>>,
                  << IF FluentNavigator_exists(insts[1].data) THEN 1 ELSE 0,
                     IF LensOps_exists(heap, insts[2]) THEN 1 ELSE 0 >>)

PairOr ==
  \E d \in NavDefaults :
    /\ heap' = heap
    /\ insts' = insts
    /\ last' = Call("pair.or", 1, NavArg("", d, ""), 0, <<>>,
                    << FluentNavigator_or(insts[1].data, d), LensOps_getOr(heap, insts[2], d) >>)

NextPair ==
  \/ PairProp
  \/ PairAt
  \/ PairFind
  \/ PairExists
  \/ PairOr

SpecPair == InitPair /\ [][NextPair]_vars

(***************************************************************************)
(* The readers of Entity, on entities with a value, without one, and with  *)
(* a value whose _key has no id or that has no _key.                       *)
(***************************************************************************)
\* { _key: { rootId, revisionNo }, name }: a key without id
NoIdKey == 10
NoIdRec == 11

ReadHeap == DataHeap \o << Obj([count |-> Count5]), Obj([_key |-> NoIdKey, name |-> NameX]) >>

InitRead ==
  /\ \E class \in EntityClasses, value \in {Undefined, Rec1, Rec3, NoIdRec},
        parent \in {Undefined, ParentRec} :
       LET e == NewEntity([heap |-> ReadHeap, insts |-> <<>>], class, value, parent)
       IN heap = e.heap /\ insts = e.insts
  /\ last = NoCall

\* a reader: nothing changes, out is what it returns
EntityRead(op, i, out) ==
  /\ heap' = heap
  /\ insts' = insts
  /\ last' = Call(op, i, 0, 0, <<>>, out)

EntityExists == \E i \in Entities : EntityRead("Entity.exists", i, exists(insts[i]))

EntityIsEmpty == \E i \in Entities : EntityRead("Entity.isEmpty", i, isEmpty(insts[i]))

EntityRaw == \E i \in Entities : EntityRead("Entity.raw", i, raw(insts[i]))

EntityId == \E i \in Entities : EntityRead("Entity.id", i, Entity_id(heap, insts[i]))

EntityName == \E i \in Entities : EntityRead("Entity.name", i, Entity_name(heap, insts[i]))

NextRead ==
  \/ EntityExists
  \/ EntityIsEmpty
  \/ EntityRaw
  \/ EntityId
  \/ EntityName
  \/ EntityCopy
  \/ EntityUpdate

SpecRead == InitRead /\ [][NextRead]_vars

(***************************************************************************)
(* The caller keeps the array it constructed a collection from and goes on *)
(* changing it: push, splice and index assignment on the input array, in   *)
(* between reads of the collection.                                        *)
(***************************************************************************)
\* bound of the model: the length the caller's array grows to
MaxInput == 4

\* (mutant) the constructor keeps the array it is given
Collection_new_Aliased(st, class, values, parent) ==
  Returning(st.heap, st.insts, CollectionInst(class, values, parent))

\* new Collection(values, parent) on an array of the heap: [...values]
Collection_new(st, class, values, parent) ==
  NewCollection(st, class, st.heap[values].elems, parent)

\* after const c = new TestCollection(values, parent), values kept by the caller
InitAlias ==
  /\ \E class \in CollectionClasses :
       LET r == Collection_new([heap |-> DataHeap, insts |-> <<>>], class, InputArr, ParentRec)
       IN heap = r.heap /\ insts = r.insts
  /\ last = NoCall

\* a statement of the caller on its array; a frozen array refuses it
CallerWrites(op, arg, es) ==
  /\ ~heap[InputArr].frozen
  /\ Len(es) <= MaxInput
  /\ es # heap[InputArr].elems
  /\ heap' = [heap EXCEPT ![InputArr].elems = es]
  /\ insts' = insts
  /\ last' = Call(op, 0, arg, 0, <<>>, 0)

CallerPush ==
  \E x \in {NameNew} : CallerWrites("caller.push", x, Append(heap[InputArr].elems, x))

CallerSplice ==
  \E start \in {0, 1} :
    CallerWrites("caller.splice", start, SpliceElems(heap[InputArr].elems, start, 1))

CallerAssign ==
  \E i \in {0, 2}, x \in {NameX} :
    /\ i < Len(heap[InputArr].elems)
    /\ CallerWrites("caller.assign", i, AssignIndex(heap[InputArr].elems, i, x))

NextAlias ==
  \/ CallerPush
  \/ CallerSplice
  \/ CallerAssign
  \/ CollectionAt

SpecAlias == InitAlias /\ [][NextAlias]_vars

(***************************************************************************)
(* Callbacks that throw.  Entity.update, Collection.update, filter, map    *)
(* and reduce call the caller's function with no try/catch around it.  A   *)
(* recipe throws at its Throw statement; a loop callback throws in the     *)
(* invocation CallbackThrows names.                                        *)
(***************************************************************************)
Throw == [kind |-> "throw", path |-> <<>>]

ThrowingEntityRecipes ==
  { <<Throw>>, <<Assign(<<>>, "name", NameX), Throw>> }

ThrowingCollectionRecipes ==
  { <<Throw>>, <<PushNew(<<>>, NameNew), Throw>> }

RecipeThrows(recipe) == \E j \in DOMAIN recipe : recipe[j].kind = "throw"

\* "throws": throw new Error(...) in every invocation; "nestedCount": reads
\* e.raw().nested.count, a TypeError where the record has no nested
ThrowingCallbacks == {"throws", "nestedCount"}

CallbackThrows(cb, h, e, index) ==
  \/ cb = "throws"
  \/ cb = "nestedCount" /\ IsNullish(GetProp(h, e.value, "nested"))

\* the loop of filter, map or reduce up to the first invocation that
\* throws: lp is [h, log, thrown]
RECURSIVE LoopUntilThrow(_, _, _, _)
LoopUntilThrow(lp, c, cb, i) ==
  IF ~(i < Len(lp.h[c.values].elems)) THEN lp
  ELSE LET k == createEntity(lp.h, c, lp.h[c.values].elems[i + 1])
           log == Append(lp.log, [value |-> k.e.value, index |-> i])
       IN IF CallbackThrows(cb, k.h, k.e, i)
          THEN [h |-> k.h, log |-> log, thrown |-> TRUE]
          ELSE LoopUntilThrow([h |-> k.h, log |-> log, thrown |-> FALSE], c, cb, i + 1)

\* (mutant) the loop is wrapped in a try/catch that ends it
Collection_loop_Caught(st, i, cb) ==
  [LoopUntilThrow([h |-> st.heap, log |-> <<>>, thrown |-> FALSE], st.insts[i], cb, 0)
     EXCEPT !.thrown = FALSE]

Collection_loop(st, i, cb) ==
  LoopUntilThrow([h |-> st.heap, log |-> <<>>, thrown |-> FALSE], st.insts[i], cb, 0)

\* update(updater): produce rethrows the updater's exception and its draft
\* is dropped; no instance is constructed
EntityUpdateThrowing ==
  \E i \in Entities, recipe \in EntityRecipes \cup ThrowingEntityRecipes :
    IF RecipeThrows(recipe) /\ ~NoValue(insts[i])
    THEN /\ heap' = heap
         /\ insts' = insts
         /\ last' = Threw("Entity.update", i, recipe, Entity_update_log(st0, i))
    ELSE LET r == Entity_update(st0, i, recipe)
         IN /\ Len(r.insts) <= MaxInsts
            /\ heap' = r.heap
            /\ insts' = r.insts
            /\ last' = Call("Entity.update", i, recipe, r.result, Entity_update_log(st0, i), 0)

CollectionUpdateThrowing ==
  \E i \in Collections, recipe \in CollectionRecipes \cup ThrowingCollectionRecipes :
    IF RecipeThrows(recipe)
    THEN /\ heap' = heap
         /\ insts' = insts
         /\ last' = Threw("Collection.update", i, recipe, <<>>)
    ELSE LET r == Collection_update(st0, i, recipe)
         IN /\ Len(r.insts) <= MaxInsts
            /\ heap' = r.heap
            /\ insts' = r.insts
            /\ last' = Call("Collection.update", i, recipe, r.result, <<>>, 0)

CollectionFilterThrowing ==
  \E i \in Collections, p \in Predicates \cup ThrowingCallbacks :
    LET t == Collection_loop(st0, i, p)
    IN IF p \in ThrowingCallbacks /\ t.thrown
       THEN /\ heap' = t.h
            /\ insts' = insts
            /\ last' = Threw("Collection.filter", i, p, t.log)
       ELSE LET r == Collection_filter(st0, i, p)
            IN /\ Len(r.insts) <= MaxInsts
               /\ heap' = r.heap
               /\ insts' = r.insts
               /\ last' = Call("Collection.filter", i, p, r.result, r.log, 0)

CollectionMapThrowing ==
  \E i \in Collections, m \in Mappers \cup ThrowingCallbacks :
    LET t == Collection_loop(st0, i, m)
    IN IF m \in ThrowingCallbacks /\ t.thrown
       THEN /\ heap' = t.h
            /\ insts' = insts
            /\ last' = Threw("Collection.map", i, m, t.log)
       ELSE LET r == Collection_map(st0, i, m)
            IN /\ heap' = r.h
               /\ insts' = insts
               /\ last' = Call("Collection.map", i, m, 0, r.log, r.out)

CollectionReduceThrowing ==
  \E i \in Collections, rd \in Reducers \cup ThrowingCallbacks :
    LET t == Collection_loop(st0, i, rd)
    IN IF rd \in ThrowingCallbacks /\ t.thrown
       THEN /\ heap' = t.h
            /\ insts' = insts
            /\ last' = Threw("Collection.reduce", i, rd, t.log)
       ELSE LET r == Collection_reduce(st0, i, rd, 0)
            IN /\ heap' = r.h
               /\ insts' = insts
               /\ last' = Call("Collection.reduce", i, rd, 0, r.log, r.out)

NextThrowing ==
  \/ EntityUpdateThrowing
  \/ CollectionUpdateThrowing
  \/ CollectionFilterThrowing
  \/ CollectionMapThrowing
  \/ CollectionReduceThrowing

\* one entity, with a value or without, and one collection, of the three
\* records or empty
InitThrowing ==
  \E value \in {Undefined, Rec1}, values \in {Undefined, InputArr} :
    LET e == NewEntity([heap |-> DataHeap, insts |-> <<>>], "TestEntity", value, ParentRec)
        c == NewCollection(e, "TestCollection",
                           IF IsRef(values) THEN e.heap[values].elems ELSE <<>>, ParentRec)
    IN /\ heap = c.heap
       /\ insts = c.insts
       /\ last = NoCall

SpecThrowing == InitThrowing /\ [][NextThrowing]_vars

(***************************************************************************)
(* Iteration step by step.  c[Symbol.iterator]() returns a generator       *)
(* object, modelled as an instance [coll: the collection's position, i:    *)
(* the loop variable, done, out: the entities yielded so far]; the body    *)
(* runs only in next().  The collection is at position 1 and the           *)
(* generators follow it.                                                   *)
(***************************************************************************)
\* bound of the model: the generators obtained in a behaviour
MaxIters == 2

IterSlots == 2 .. (MaxIters + 1)

GeneratorInst(coll) ==
  [type |-> "Generator", coll |-> coll, i |-> 0, done |-> FALSE, out |-> <<>>]

\* (mutant) the loop variable is kept in the collection: a next() on one
\* generator advances every generator of that collection
Generator_next_SharedIndex(st, k) ==
  LET g == st.insts[k]
      c == st.insts[g.coll]
      elems == st.heap[c.values].elems
  IN IF g.i < Len(elems)
     THEN LET e == createEntity(st.heap, c, elems[g.i + 1])
          IN [heap |-> e.h,
              insts |-> [j \in DOMAIN st.insts |->
                           IF j = k THEN [g EXCEPT !.i = g.i + 1, !.out = Append(g.out, e.e)]
                           ELSE IF st.insts[j].type = "Generator"
                                THEN [st.insts[j] EXCEPT !.i = g.i + 1]
                                ELSE st.insts[j]],
              value |-> e.e, done |-> FALSE]
     ELSE [heap |-> st.heap, insts |-> [st.insts EXCEPT ![k].done = TRUE],
           value |-> Undefined, done |-> TRUE]

\* next() on generator k: the loop test, then yield this.createEntity(
\* this.values[i]) and i++ on resumption, or the end of the body
Generator_next(st, k) ==
  LET g == st.insts[k]
      c == st.insts[g.coll]
      elems == st.heap[c.values].elems
  IN IF g.i < Len(elems)
     THEN LET e == createEntity(st.heap, c, elems[g.i + 1])
          IN [heap |-> e.h,
              insts |-> [st.insts EXCEPT ![k] = [g EXCEPT !.i = g.i + 1,
                                                          !.out = Append(g.out, e.e)]],
              value |-> e.e, done |-> FALSE]
     ELSE [heap |-> st.heap, insts |-> [st.insts EXCEPT ![k].done = TRUE],
           value |-> Undefined, done |-> TRUE]

\* a collection of the three records, or an empty one
InitIterate ==
  /\ \E class \in CollectionClasses, es \in {<<>>, <<Rec1, Rec2, Rec3>>} :
       LET r == NewCollection([heap |-> DataHeap, insts |-> <<>>], class, es, ParentRec)
       IN heap = r.heap /\ insts = r.insts
  /\ last = NoCall

GetIterator ==
  /\ Len(insts) <= MaxIters
  /\ heap' = heap
  /\ insts' = Append(insts, GeneratorInst(1))
  /\ last' = Call("Collection.iterator", 1, 0, Len(insts) + 1, <<>>, 0)

\* the consumer (for-of, spread) calls next() until it reports done
IteratorNext(k) ==
  /\ k \in DOMAIN insts
  /\ insts[k].type = "Generator"
  /\ ~insts[k].done
  /\ LET r == Generator_next(st0, k)
     IN /\ heap' = r.heap
        /\ insts' = r.insts
        \* out: 1 when the call reports done, 0 when it yields the last of out
        /\ last' = Call("Generator.next", k, 0, 0, <<>>, IF r.done THEN 1 ELSE 0)

NextIterate ==
  \/ GetIterator
  \/ \E k \in IterSlots : IteratorNext(k)

\* every consumer goes on to the end of its iteration
SpecIterate ==
  InitIterate /\ [][NextIterate]_vars /\ \A k \in IterSlots : WF_vars(IteratorNext(k))

(***************************************************************************)
(* Observation helpers for the properties.                                 *)
(***************************************************************************)
Refs(cell) ==
  {v \in {cell.fields[k] : k \in Fields} \cup {cell.elems[j] : j \in DOMAIN cell.elems} :
     IsRef(v)}

RECURSIVE ReachFrom(_, _)
ReachFrom(h, S) ==
  LET N == S \cup UNION {Refs(h[a]) : a \in S}
  IN IF N = S THEN S ELSE ReachFrom(h, N)

\* the cells a value is made of: itself and every nested part
Reach(h, v) == IF IsRef(v) THEN ReachFrom(h, {v}) ELSE {}

\* the value v with every nested part unchanged between the call and now
Untouched(v) ==
  \A a \in Reach(last.pre.heap, v) : Content(heap[a]) = last.pre.heap[a]

\* a value as a tree, without addresses
RECURSIVE Deep(_, _)
Deep(h, v) ==
  IF ~IsRef(v) THEN [t |-> "prim", v |-> v]
  ELSE IF h[v].kind = "object"
       THEN [t |-> "object", v |-> [k \in Fields |-> Deep(h, h[v].fields[k])]]
       ELSE [t |-> "array", v |-> [j \in 1 .. Len(h[v].elems) |-> Deep(h, h[v].elems[j])]]

DeepPrim(v) == [t |-> "prim", v |-> v]

\* the effect of a recipe on a tree, statement by statement
RECURSIVE TreeGet(_, _)
TreeGet(dv, path) ==
  IF path = <<>> THEN dv
  ELSE LET par == TreeGet(dv, SubSeq(path, 1, Len(path) - 1))
           step == path[Len(path)]
       IN IF par.t = "object" /\ step.f # "" THEN par.v[step.f]
          ELSE IF par.t = "array" /\ step.f = "" /\ step.i >= 0 /\ step.i < Len(par.v)
               THEN par.v[step.i + 1]
               ELSE DeepPrim(Undefined)

RECURSIVE TreePut(_, _, _)
TreePut(dv, path, new) ==
  IF path = <<>> THEN new
  ELSE LET step == Head(path)
       IN IF step.f # ""
          THEN [dv EXCEPT !.v[step.f] = TreePut(dv.v[step.f], Tail(path), new)]
          ELSE [dv EXCEPT !.v[step.i + 1] = TreePut(dv.v[step.i + 1], Tail(path), new)]

TreeEdited(t, e) ==
  CASE e.kind = "assign" /\ t.t = "object" -> [t EXCEPT !.v[e.key] = DeepPrim(e.val)]
    [] e.kind = "assignArr" /\ t.t = "object" ->
         [t EXCEPT !.v[e.key] =
            [t |-> "array", v |-> [j \in 1 .. Len(e.elems) |-> DeepPrim(e.elems[j])]]]
    [] e.kind = "push" /\ t.t = "array" -> [t EXCEPT !.v = Append(t.v, DeepPrim(e.val))]
    [] e.kind = "pushNew" /\ t.t = "array" ->
         [t EXCEPT !.v = Append(t.v,
            [t |-> "object",
             v |-> [k \in Fields |-> DeepPrim(IF k = "name" THEN e.val ELSE Undefined)]])]
    [] e.kind = "splice" /\ t.t = "array" ->
         LET n == Len(t.v)
             cut == IF e.start >= n THEN 0
                    ELSE IF e.start + e.count > n THEN n - e.start ELSE e.count
         IN [t EXCEPT !.v = [j \in 1 .. (n - cut) |->
                               IF j <= e.start THEN t.v[j] ELSE t.v[j + cut]]]
    [] e.kind = "shiftPush" /\ t.t = "array" ->
         [t EXCEPT !.v = [j \in 1 .. Len(t.v) |->
                            IF j < Len(t.v) THEN t.v[j + 1] ELSE t.v[1]]]
    [] OTHER -> t

RECURSIVE TreeRecipe(_, _)
TreeRecipe(dv, recipe) ==
  IF recipe = <<>> THEN dv
  ELSE LET e == Head(recipe)
           t == TreeGet(dv, e.path)
       IN TreeRecipe(IF t.t = "prim" THEN dv ELSE TreePut(dv, e.path, TreeEdited(t, e)),
                     Tail(recipe))

\* a call returned an instance created by the call
IsNew(i) == i \in DOMAIN insts /\ i \notin DOMAIN last.pre.insts

recv0 == last.pre.insts[last.recv]
elems0(c) == last.pre.heap[c.values].elems

(***************************************************************************)
(* C1: e.update(f) leaves e.raw() and every nested part of the held value  *)
(* as they were before the call, for top-level, nested-field and           *)
(* nested-array edits; the edit shows only in the returned Entity.         *)
(***************************************************************************)
C1_UpdateLeavesReceiver ==
  last.op = "Entity.update" =>
    /\ insts[last.recv] = recv0
    /\ raw(insts[last.recv]) = raw(recv0)
    /\ Untouched(raw(recv0))
    /\ Deep(heap, raw(insts[last.recv])) = Deep(last.pre.heap, raw(recv0))

\* a nested count and a nested array were edited: the receiver still shows the
\* old ones, the returned entity the new ones
C1_Witness ==
  /\ last.op = "Entity.update"
  /\ last.result # last.recv
  /\ TreeGet(Deep(heap, raw(insts[last.recv])), <<Prop("nested"), Prop("count")>>)
       = DeepPrim(Count5)
  /\ TreeGet(Deep(heap, raw(insts[last.result])), <<Prop("nested"), Prop("count")>>)
       = DeepPrim(Count10)
  /\ Len(TreeGet(Deep(heap, raw(insts[last.result])), <<Prop("nested"), Prop("items")>>).v) = 2
  /\ Len(TreeGet(Deep(heap, raw(insts[last.recv])), <<Prop("nested"), Prop("items")>>).v) = 1

(***************************************************************************)
(* C2: update returns the receiver itself, without calling the updater,    *)
(* exactly when the entity holds no value (exists() is false); when        *)
(* exists() is true it returns a new instance, distinct from the receiver. *)
(***************************************************************************)
C2_UpdateSameInstanceIffAbsent ==
  last.op = "Entity.update" =>
    /\ (last.result = last.recv) <=> ~exists(recv0)
    /\ ~exists(recv0) => last.log = <<>> /\ insts = last.pre.insts
    /\ exists(recv0) => IsNew(last.result) /\ Len(last.log) = 1

C2_Witness ==
  /\ last.op = "Entity.update"
  /\ ~exists(recv0)
  /\ last.result = last.recv

C4_AtOutOfRangeIsAbsent ==
  last.op = "Collection.at" =>
    LET es == elems0(recv0)
        i == last.arg
        e == insts[last.result]
    IN /\ IsNew(last.result)
       /\ e.type = "Entity"
       /\ (i < 0 \/ i >= Len(es)) => raw(e) = Undefined /\ ~exists(e)
       /\ (0 <= i /\ i < Len(es)) => raw(e) = es[i + 1]

C4_Witness ==
  /\ last.op = "Collection.at"
  /\ last.arg = -1
  /\ Len(elems0(recv0)) = 3
  /\ raw(insts[last.result]) = Undefined

(***************************************************************************)
(* C5: update(editFn) returns a new Collection whose backing sequence is   *)
(* the draft as editFn left it (field edits, push, splice, shift and       *)
(* reordering, in order) while the receiver keeps the sequence it had; an  *)
(* edit of draft[j] changes element j of the result and no other element.  *)
(***************************************************************************)
\* the indexes j whose draft[j] a recipe edits, and whether it moves elements
EditedIndexes(recipe) ==
  {recipe[n].path[1].i : n \in {m \in DOMAIN recipe : recipe[m].path # <<>>}}

Reorders(recipe) ==
  \E n \in DOMAIN recipe : recipe[n].path = <<>> /\ recipe[n].kind \in {"splice", "shiftPush"}

C5_UpdateReflectsDraft ==
  last.op = "Collection.update" =>
    LET c == recv0
        r == insts[last.result]
        es == elems0(c)
    IN /\ IsNew(last.result)
       /\ r.type = "Collection"
       /\ r.values # c.values
       /\ Deep(heap, r.values) = TreeRecipe(Deep(last.pre.heap, c.values), last.arg)
       /\ heap[insts[last.recv].values].elems = es
       /\ Deep(heap, insts[last.recv].values) = Deep(last.pre.heap, c.values)
       /\ ~Reorders(last.arg) =>
            \A k \in DOMAIN es :
              (k - 1) \notin EditedIndexes(last.arg) => heap[r.values].elems[k] = es[k]

\* draft[1].name was assigned and a record pushed: the result has four records,
\* the second renamed, the first still the receiver's own first record
C5_Witness ==
  /\ last.op = "Collection.update"
  /\ Len(elems0(recv0)) = 3
  /\ Len(heap[insts[last.result].values].elems) = 4
  /\ GetProp(heap, heap[insts[last.result].values].elems[2], "name") = NameX
  /\ GetProp(heap, heap[insts[last.recv].values].elems[2], "name") = Name2
  /\ heap[insts[last.result].values].elems[1] = heap[insts[last.recv].values].elems[1]

(***************************************************************************)
(* C6: filter(predicate) calls predicate once per element, in increasing   *)
(* index order, with the element's zero-based index, and returns a new     *)
(* Collection of exactly the records for which it returned true, in their  *)
(* original relative order.                                                *)
(***************************************************************************)
\* the elements of es at the positions in K, in order
RECURSIVE Pick(_, _, _)
Pick(es, K, k) ==
  IF k > Len(es) THEN <<>>
  ELSE (IF k \in K THEN <<es[k]>> ELSE <<>>) \o Pick(es, K, k + 1)

C6_FilterOncePerElementInOrder ==
  last.op = "Collection.filter" =>
    LET c == recv0
        es == elems0(c)
        kept == {k \in DOMAIN es :
                   Pred(last.arg, heap, EntityInst(EntityClassOf(c.class), es[k], c.parent), k - 1)}
    IN /\ Len(last.log) = Len(es)
       /\ \A k \in DOMAIN es : last.log[k] = [value |-> es[k], index |-> k - 1]
       /\ IsNew(last.result)
       /\ insts[last.result].type = "Collection"
       /\ heap[insts[last.result].values].elems = Pick(es, kept, 1)

\* Scenario A: of three records, filter((e, i) => i === 1) keeps the second
C6_Witness ==
  /\ last.op = "Collection.filter"
  /\ last.arg = "indexIsOne"
  /\ Len(elems0(recv0)) = 3
  /\ Len(last.log) = 3
  /\ heap[insts[last.result].values].elems = <<Rec2>>
  /\ GetProp(heap, GetProp(heap, Rec2, "_key"), "id") = Id2

C8_PipeLeftToRight ==
  (last.op = "pipe" /\ Len(last.arg) >= 1 /\ Len(last.arg) <= PipeArity) =>
    LET fns == last.arg
        n == Len(fns)
        x == [t |-> "inst", v |-> last.recv]
    IN /\ Len(last.log) = n
       /\ \A k \in 1 .. n :
            /\ last.log[k].fn = fns[k]
            /\ last.log[k].arg = IF k = 1 THEN x ELSE last.log[k - 1].ret
            /\ last.log[k].ret = PipeFn(fns[k], st0, last.log[k].arg)
       /\ last.out = last.log[n].ret
       /\ n = 1 => last.out = PipeFn(fns[1], st0, x)
       /\ n = 2 => last.out = PipeFn(fns[2], st0, PipeFn(fns[1], st0, x))
       /\ insts = last.pre.insts
       /\ Snapshot(heap) = last.pre.heap

\* a collection of three records piped through getValue, double, inc: 3, 6, 7
C8_Witness ==
  /\ last.op = "pipe"
  /\ last.arg = <<"getValue", "double", "inc">>
  /\ insts[last.recv].type = "Collection"
  /\ last.log[2].arg = [t |-> "num", v |-> 3]
  /\ last.out = [t |-> "num", v |-> 7]

\* sixteen functions are piped as well
C8_WitnessSixteen ==
  /\ last.op = "pipe"
  /\ Len(last.arg) = PipeArity
  /\ Len(last.log) = PipeArity

(***************************************************************************)
(* Lens properties.                                                        *)
(***************************************************************************)
LensOps == {"lens.get", "lens.set", "lens.modify"}

\* the lenses of a chain, outermost first, whatever the association
RECURSIVE Flat(_)
Flat(l) == IF l[1] = "compose" THEN Flat(l[2]) \o Flat(l[3]) ELSE <<l>>

\* the focus after the first k lenses of a chain, null once one is absent
RECURSIVE PathGet(_, _, _, _)
PathGet(atoms, h, s, k) ==
  IF k = 0 THEN s
  ELSE LET a == PathGet(atoms, h, s, k - 1)
       IN IF a = Null THEN Null ELSE LensGet(atoms[k], h, a)

\* the get of some lens before the last one of the chain is absent
AbsentOnTheWay(l, h, s) ==
  \E k \in 1 .. (Len(Flat(l)) - 1) : PathGet(Flat(l), h, s, k) = Null

(***************************************************************************)
(* C9: absence propagation: for a chain of prop, safeProp, index,          *)
(* safeIndex and find lenses composed in any association, when the get of  *)
(* an intermediate lens is absent for s, the composed get(s) is absent and *)
(* the composed set(s, x) and modify(s, f) return the source s itself,     *)
(* unchanged.                                                              *)
(***************************************************************************)
C9_AbsencePropagation ==
  (/\ last.op \in LensOps
   /\ last.arg.lens[1] = "compose"
   /\ AbsentOnTheWay(last.arg.lens, last.pre.heap, last.arg.s)) =>
    /\ last.op = "lens.get" => last.out = Null
    /\ last.op \in {"lens.set", "lens.modify"} =>
         /\ last.out = last.arg.s
         /\ Untouched(last.arg.s)

\* what the code does keep of the law: get is absent, modify returns the
\* source itself, and set returns a value with the contents of the source
C9_AbsenceKeepsContents ==
  (/\ last.op \in LensOps
   /\ last.arg.lens[1] = "compose"
   /\ AbsentOnTheWay(last.arg.lens, last.pre.heap, last.arg.s)) =>
    /\ last.op = "lens.get" => last.out = Null
    /\ last.op = "lens.modify" => last.out = last.arg.s /\ Snapshot(heap) = last.pre.heap
    /\ last.op = "lens.set" =>
         /\ Deep(heap, last.out) = Deep(last.pre.heap, last.arg.s)
         /\ Untouched(last.arg.s)
         /\ PathGet(Flat(last.arg.lens), last.pre.heap, last.arg.s, 1) = Null
              => last.out = last.arg.s

(***************************************************************************)
(* C10: for compose(outer, inner): get(s) is absent when outer.get(s) is   *)
(* absent and inner.get(outer.get(s)) otherwise; set(s, b) is s itself     *)
(* when outer.get(s) is absent and outer.set(s, inner.set(outer.get(s),    *)
(* b)) otherwise; modify(s, f) is s itself when outer.get(s) or            *)
(* inner.get(outer.get(s)) is absent.                                      *)
(***************************************************************************)
C10_ComposeShortCircuits ==
  (last.op \in LensOps /\ last.arg.lens[1] = "compose") =>
    LET outer == last.arg.lens[2]
        inner == last.arg.lens[3]
        h == last.pre.heap
        s == last.arg.s
        a == LensGet(outer, h, s)
        in == LensSet(inner, h, a, last.arg.a)
        both == LensSet(outer, in.h, s, in.v)
    IN /\ last.op = "lens.get" =>
            last.out = IF a = Null THEN Null ELSE LensGet(inner, h, a)
       /\ (last.op = "lens.set" /\ a = Null) =>
            last.out = s /\ Snapshot(heap) = h
       /\ (last.op = "lens.set" /\ a # Null) =>
            last.out = both.v /\ Snapshot(heap) = Snapshot(both.h)
       /\ (last.op = "lens.modify" /\ (a = Null \/ LensGet(inner, h, a) = Null)) =>
            last.out = s /\ Snapshot(heap) = h

\* set through compose(prop("nested"), safeProp("items")) on a record without
\* nested returns the record itself; on a record with nested, a new record
C10_Witness ==
  /\ last.op = "lens.set"
  /\ last.arg.lens = <<"compose", <<"prop", "nested", 0>>, <<"safeProp", "items", 0>>>>
  /\ last.arg.s = Rec2
  /\ last.out = Rec2

(***************************************************************************)
(* C11: round trip of the property lens P = prop(k): P.get(P.set(s, x)) is *)
(* x for every source s, present or absent, and every value x.             *)
(***************************************************************************)
C11_PropRoundTrip ==
  last.op = "prop.set.get" => last.out = last.arg.a

\* C11 as amended: the round trip returns x for every x other than
\* undefined; get reads a property set to undefined as absent (null)
C11_PropRoundTripDefined ==
  last.op = "prop.set.get" =>
    last.out = IF last.arg.a = Undefined THEN Null ELSE last.arg.a

\* the name of a record that has one is replaced and read back
C11_Witness ==
  /\ last.op = "prop.set.get"
  /\ last.arg.lens = <<"prop", "name", 0>>
  /\ last.arg.s = Rec1
  /\ last.arg.a = NameX
  /\ last.out = NameX

(***************************************************************************)
(* Fluent navigation properties.  navData is the value the receiver held   *)
(* when the call was made, navCell the array or object it referred to.     *)
(***************************************************************************)
navData == last.pre.insts[last.recv].data
navCell == last.pre.heap[navData]
navResult == insts[last.result].data
navIsArray == IsRef(navData) /\ navCell.kind = "array"

(***************************************************************************)
(* C12: fluent property navigation propagates absence: get on a wrapper    *)
(* whose value is null or undefined, or whose value has no such key or     *)
(* holds null there, returns an absent wrapper and does not throw, so      *)
(* every later wrapper of a chain of get steps is absent; or(d) returns d  *)
(* on an absent wrapper and the held value on a present one.               *)
(***************************************************************************)
C12_GetPropagatesAbsence ==
  /\ last.op = "nav.get" =>
       LET present == /\ IsRef(navData)
                      /\ navCell.kind = "object"
                      /\ ~IsNullish(navCell.fields[last.arg.key])
       IN /\ ~last.thrown
          /\ last.result # 0
          /\ present => navResult = navCell.fields[last.arg.key]
          /\ ~present => navResult = Null
  /\ last.op = "nav.or" =>
       /\ ~last.thrown
       /\ last.out = IF IsNullish(navData) THEN last.arg.index ELSE navData

\* from({nested: null}).get("nested").get(key): the second get is applied to
\* the absent wrapper the first one returned
C12_Witness ==
  /\ last.op = "nav.get"
  /\ last.recv = 2
  /\ last.pre.insts[1].data = MalRec
  /\ navData = Null
  /\ navResult = Null

(***************************************************************************)
(* C13: at(index) returns an absent wrapper when the held value is no      *)
(* array or index < 0 or index >= length, and otherwise a wrapper holding  *)
(* the element at index (absent when that element is null); it does not    *)
(* throw.                                                                  *)
(***************************************************************************)
C13_AtOutOfRangeIsAbsent ==
  last.op = "nav.at" =>
    LET i == last.arg.index
        inRange == navIsArray /\ i >= 0 /\ i < Len(navCell.elems)
    IN /\ ~last.thrown
       /\ last.result # 0
       /\ inRange => navResult = Coalesce(navCell.elems[i + 1])
       /\ ~inRange => navResult = Null

\* at(-1) on an array of three elements
C13_Witness ==
  /\ last.op = "nav.at"
  /\ last.arg.index = -1
  /\ navData = MalItems
  /\ navResult = Null

(***************************************************************************)
(* C14: filter and map return a wrapper holding an array, never an absent  *)
(* wrapper: the filtered or mapped elements in their order when the held   *)
(* value is an array, the empty array otherwise; get on an absent wrapper  *)
(* returns an absent wrapper.                                              *)
(***************************************************************************)
C14_FilterMapHoldArray ==
  /\ (last.op \in {"nav.filter", "nav.map"} /\ ~last.thrown) =>
       /\ last.result # 0
       /\ IsArray(heap, navResult)
       /\ ~navIsArray => heap[navResult].elems = <<>>
       /\ (navIsArray /\ last.op = "nav.filter") =>
            heap[navResult].elems =
              Pick(navCell.elems,
                   {k \in DOMAIN navCell.elems : NavPred(last.arg.fn, heap, navCell.elems[k])}, 1)
       /\ (navIsArray /\ last.op = "nav.map") =>
            /\ Len(heap[navResult].elems) = Len(navCell.elems)
            /\ \A k \in DOMAIN navCell.elems :
                 heap[navResult].elems[k] = NavMapper(last.arg.fn, heap, navCell.elems[k], k - 1)
  /\ (last.op = "nav.get" /\ IsNullish(navData)) => IsNullish(navResult)

\* filter on an absent wrapper holds a new empty array
C14_Witness ==
  /\ last.op = "nav.filter"
  /\ navData = Null
  /\ IsArray(heap, navResult)
  /\ heap[navResult].elems = <<>>

\* filter keeps the matching elements of an array that holds a null
C14_WitnessMatch ==
  /\ last.op = "nav.filter"
  /\ ~last.thrown
  /\ navData = MalItems
  /\ heap[navResult].elems = <<Rec1>>

(***************************************************************************)
(* C15: an exception thrown by the callback of transform, tap or           *)
(* existsWhere does not escape: transform returns an absent wrapper,       *)
(* existsWhere returns false, tap returns the same wrapper with its value  *)
(* unchanged; on an absent wrapper the callback is not called.             *)
(***************************************************************************)
C15_CallbackExceptionsSwallowed ==
  /\ last.op \in {"nav.transform", "nav.tap", "nav.existsWhere"} =>
       /\ ~last.thrown
       /\ IsNullish(navData) <=> last.log = <<>>
  /\ (last.op = "nav.transform" /\ last.arg.fn = "nonexistentMethod") =>
       /\ navResult = Null
       /\ FluentNavigator_or(navResult, NameNew) = NameNew
  /\ (last.op = "nav.existsWhere" /\ last.arg.fn = "throws") => last.out = FALSE
  /\ last.op = "nav.tap" =>
       /\ last.result = 1
       /\ insts[1] = last.pre.insts[last.recv]
       /\ Snapshot(heap) = last.pre.heap

\* Scenario E: transform(v => v.nonexistentMethod()) on a present value
C15_Witness ==
  /\ last.op = "nav.transform"
  /\ last.arg.fn = "nonexistentMethod"
  /\ navData = Rec1
  /\ last.log = <<"nonexistentMethod">>
  /\ navResult = Null

(***************************************************************************)
(* C16: a fluent navigation chain never throws: whatever the source and    *)
(* the steps (get, at, find, filter, map, transform, tap, existsWhere,     *)
(* exists, or, getValue), a throwing callback included, every step         *)
(* returns.                                                                *)
(***************************************************************************)
NavOps ==
  {"nav.get", "nav.at", "nav.find", "nav.filter", "nav.map", "nav.transform", "nav.tap",
   "nav.existsWhere", "nav.exists", "nav.or", "nav.getValue"}

C16_ChainNeverThrows ==
  last.op \in NavOps => ~last.thrown

\* what holds of the code: only find, filter and map end by throwing, and
\* only when their callback throws on an element of the array
C16_OnlyArrayCallbacksThrow ==
  (last.op \in NavOps /\ last.thrown) =>
    /\ last.op \in {"nav.find", "nav.filter", "nav.map"}
    /\ navIsArray
    /\ \E k \in DOMAIN navCell.elems :
         IF last.op = "nav.map" THEN NavMapperThrows(last.arg.fn, heap, navCell.elems[k])
         ELSE NavPredThrows(last.arg.fn, heap, navCell.elems[k])

(***************************************************************************)
(* C17: every chaining call on a fluent wrapper (FluentNavigator get, at,  *)
(* find, filter, map, transform, tap; LensOps focus, prop, safeProp, at,   *)
(* findItem, transform, tap) returns a new wrapper distinct from the       *)
(* receiver, and the receiver holds the same value, or source and lens,    *)
(* after the call as before.                                               *)
(***************************************************************************)
ChainingOps ==
  {"nav.get", "nav.at", "nav.find", "nav.filter", "nav.map", "nav.transform", "nav.tap",
   "ops.focus", "ops.prop", "ops.safeProp", "ops.at", "ops.findItem", "ops.transform",
   "ops.tap"}

\* the receiver (at 1 after the call) is as it was, and so is all data
ReceiverKept ==
  /\ insts[1] = last.pre.insts[last.recv]
  /\ \A a \in DOMAIN last.pre.heap : Content(heap[a]) = last.pre.heap[a]

C17_WitnessOps ==
  /\ last.op = "ops.prop"
  /\ Len(insts) = 2
  /\ insts[1] = last.pre.insts[last.recv]
  /\ LensLeaves(insts[1].lens) = 3
  /\ insts[2].lens = <<"compose", insts[1].lens, <<"prop", "nested", 0>>>>

(***************************************************************************)
(* C18: Collection.copy() returns a new Collection, distinct from the      *)
(* receiver, of the same concrete subtype and parent, that references the  *)
(* same backing sequence: c.copy().raw() is the array c.raw() is.          *)
(***************************************************************************)
C18_CopySharesBackingSequence ==
  last.op = "Collection.copy" =>
    /\ IsNew(last.result)
    /\ insts[last.result].class = recv0.class
    /\ insts[last.result].parent = recv0.parent
    /\ insts[last.result].values = recv0.values

\* C18 as amended: the copy's backing sequence is a new frozen array that
\* holds the receiver's records, the same objects in the same order
C18_CopyHoldsSameRecords ==
  last.op = "Collection.copy" =>
    /\ IsNew(last.result)
    /\ insts[last.result].type = "Collection"
    /\ insts[last.result].class = recv0.class
    /\ insts[last.result].parent = recv0.parent
    /\ insts[last.result].values # recv0.values
    /\ insts[last.result].values \notin DOMAIN last.pre.heap
    /\ heap[insts[last.result].values].frozen
    /\ heap[insts[last.result].values].elems = elems0(recv0)
    /\ heap[recv0.values].elems = elems0(recv0)

\* a copy of the collection of three records
C18_Witness ==
  /\ last.op = "Collection.copy"
  /\ IsNew(last.result)
  /\ heap[insts[last.result].values].elems = <<Rec1, Rec2, Rec3>>
  /\ insts[last.result].values # recv0.values

(***************************************************************************)
(* C19: iterating a Collection of length n terminates: every generator     *)
(* yields exactly n entities, the k-th of the k-th record, in index order, *)
(* and then reports done; a second generator, obtained during or after a   *)
(* first iteration, starts at index 0 and runs independently of the first. *)
(***************************************************************************)
C19_YieldsInOrder ==
  \A k \in DOMAIN insts :
    insts[k].type = "Generator" =>
      LET g == insts[k]
          c == insts[g.coll]
          elems == heap[c.values].elems
      IN /\ g.i = Len(g.out)
         /\ Len(g.out) <= Len(elems)
         /\ g.done => Len(g.out) = Len(elems)
         /\ \A j \in DOMAIN g.out :
              /\ g.out[j].type = "Entity"
              /\ g.out[j].value = elems[j]
              /\ g.out[j].class = EntityClassOf(c.class)
              /\ g.out[j].parent = c.parent

C19_IterationTerminates ==
  /\ []C19_YieldsInOrder
  /\ [](last.op = "Collection.iterator" => insts[last.result].i = 0 /\ insts[last.result].out = <<>>)
  /\ \A k \in IterSlots :
       (k \in DOMAIN insts) ~> (k \in DOMAIN insts /\ insts[k].done)

\* a second generator obtained while the first is in the middle of three
\* records; the first has ended and the second has yielded one entity
C19_Witness ==
  /\ Len(insts) = 3
  /\ insts[2].done
  /\ Len(insts[2].out) = 3
  /\ ~insts[3].done
  /\ Len(insts[3].out) = 1
  /\ insts[3].out[1].value = Rec1

(***************************************************************************)
(* C20: an exception thrown by the callback passed to Entity.update,       *)
(* Collection.update, Collection.filter, Collection.map or                 *)
(* Collection.reduce propagates to the caller: the call throws exactly     *)
(* when an invocation of the callback throws.  After it has propagated, no *)
(* instance has been created, the receiver holds the value or backing      *)
(* sequence it held, of the same length, and no record that existed has    *)
(* changed.                                                                *)
(***************************************************************************)
CallbackOps ==
  {"Entity.update", "Collection.update", "Collection.filter", "Collection.map",
   "Collection.reduce"}

\* an invocation of the callback of the last call throws, from the state
\* before the call
C20_CallbackThrew ==
  LET x == last.pre.insts[last.recv]
  IN CASE last.op = "Entity.update" ->
            ~IsNullish(x.value) /\ \E j \in DOMAIN last.arg : last.arg[j] = Throw
       [] last.op = "Collection.update" ->
            \E j \in DOMAIN last.arg : last.arg[j] = Throw
       [] OTHER ->
            /\ last.arg \in ThrowingCallbacks
            /\ \E j \in DOMAIN last.pre.heap[x.values].elems :
                 LET v == last.pre.heap[x.values].elems[j]
                 IN \/ last.arg = "throws"
                    \/ v = Undefined
                    \/ v = Null
                    \/ last.pre.heap[v].fields["nested"] = Undefined
                    \/ last.pre.heap[v].fields["nested"] = Null

C20_CallbackExceptionsPropagate ==
  last.op \in CallbackOps =>
    /\ last.thrown <=> C20_CallbackThrew
    /\ last.thrown =>
         /\ last.result = 0
         /\ insts = last.pre.insts
         /\ Len(heap) = Len(last.pre.heap)
         /\ \A a \in DOMAIN last.pre.heap : Content(heap[a]) = last.pre.heap[a]
         /\ LET x == insts[last.recv]
            IN x.type = "Collection" =>
                 /\ heap[x.values].frozen
                 /\ Len(heap[x.values].elems) = Len(last.pre.heap[x.values].elems)

\* filter on the three records with a predicate that reads nested.count:
\* the first record has a nested, the second invocation throws
C20_Witness ==
  /\ last.op = "Collection.filter"
  /\ last.thrown
  /\ last.arg = "nestedCount"
  /\ Len(last.log) = 2
  /\ Len(heap[insts[last.recv].values].elems) = 3

\* each of the five operations has thrown
C20_WitnessEntity ==
  /\ last.op = "Entity.update"
  /\ last.thrown
  /\ Len(last.arg) = 2

(***************************************************************************)
(* C21: frozenness.  In every reachable state the record held by an Entity *)
(* that exists (constructed directly, materialized by a Collection, or     *)
(* returned by update or copy) is frozen at its top level, and the backing *)
(* sequence of every Collection (constructed directly or returned by       *)
(* filter, update, copy or create) is frozen.                              *)
(***************************************************************************)
C21_HeldValuesFrozen ==
  /\ \A i \in DOMAIN insts :
       /\ (insts[i].type = "Entity" /\ IsRef(insts[i].value)) => heap[insts[i].value].frozen
       /\ insts[i].type = "Collection" =>
            /\ IsRef(insts[i].values)
            /\ heap[insts[i].values].kind = "array"
            /\ heap[insts[i].values].frozen
  \* the entities materialized for the callbacks of the last call
  /\ \A j \in DOMAIN last.log : IsRef(last.log[j].value) => heap[last.log[j].value].frozen

\* an entity returned by update holds a record that produce made, beside a
\* collection of three records
C21_Witness ==
  /\ last.op = "Entity.update"
  /\ last.result # last.recv
  /\ insts[last.result].value > Len(DataHeap)
  /\ heap[insts[last.result].value].frozen
  /\ \E i \in Collections : Len(heap[insts[i].values].elems) = 3 /\ heap[insts[i].values].frozen

\* at(1) has materialized an entity on the second record of the input array
C21_WitnessMaterialized ==
  /\ last.op = "Collection.at"
  /\ insts[last.result].value = Rec2
  /\ heap[Rec2].frozen

(***************************************************************************)
(* C22: the two fluent designs are interchangeable: for every source       *)
(* (null and undefined included) and every chain of property, index and    *)
(* find steps, exists() and or(d) / getOr(d) of the navigator and of the   *)
(* lens-backed wrapper return the same result.                             *)
(***************************************************************************)
C22_DesignsInterchangeable ==
  last.op \in {"pair.exists", "pair.or"} => last.out[1] = last.out[2]

\* what does hold: the two differ only while the lens wrapper's focus is
\* undefined, which its get reports as a present value
C22_DifferOnlyOnUndefined ==
  last.op \in {"pair.exists", "pair.or"} =>
    \/ last.out[1] = last.out[2]
    \/ LensGet(insts[2].lens, heap, insts[2].source) = Undefined

\* the two agree after a chain of three steps that ends on a present value
C22_AgreeWitness ==
  /\ last.op = "pair.or"
  /\ LensLeaves(insts[2].lens) = 4
  /\ last.out[1] = last.out[2]
  /\ last.out[1] # last.arg.index

(***************************************************************************)
(* C23: on an Entity constructed with no value no method throws and every  *)
(* method degrades to an absent or empty result: exists() is false,        *)
(* isEmpty() is true, id(), raw() and name are undefined, copy() returns a *)
(* distinct Entity that does not exist either (and update the entity       *)
(* itself); id() is undefined, not an exception, for a present value whose *)
(* _key has no id or that has no _key.                                     *)
(***************************************************************************)
EntityOps ==
  {"Entity.exists", "Entity.isEmpty", "Entity.raw", "Entity.id", "Entity.name",
   "Entity.copy", "Entity.update"}

C23_AbsentEntityDegrades ==
  last.op \in EntityOps =>
    LET e == last.pre.insts[last.recv]
    IN /\ ~last.thrown
       /\ e.value = Undefined =>
            CASE last.op = "Entity.exists" -> last.out = FALSE
              [] last.op = "Entity.isEmpty" -> last.out = TRUE
              [] last.op = "Entity.copy" ->
                   /\ last.result # last.recv
                   /\ insts[last.result].type = "Entity"
                   /\ insts[last.result].value = Undefined
                   /\ insts[last.recv] = e
              [] last.op = "Entity.update" -> last.result = last.recv /\ insts = last.pre.insts
              [] OTHER -> last.out = Undefined
       /\ (/\ last.op = "Entity.id"
           /\ IsRef(e.value)
           /\ \/ last.pre.heap[e.value].fields["_key"] = Undefined
              \/ last.pre.heap[last.pre.heap[e.value].fields["_key"]].fields["id"] = Undefined)
            => last.out = Undefined

\* copy() of an entity without a value has returned another one
C23_Witness ==
  /\ last.op = "Entity.copy"
  /\ last.pre.insts[last.recv].value = Undefined
  /\ last.result = 2

\* id() on the record whose _key has no id, and on the record without _key
C23_WitnessNoId ==
  /\ last.op = "Entity.id"
  /\ last.pre.insts[last.recv].value = NoIdRec
  /\ last.out = Undefined

C23_WitnessNoKey ==
  /\ last.op = "Entity.id"
  /\ last.pre.insts[last.recv].value = Rec3

C23_WitnessHasId ==
  /\ last.op = "Entity.id"
  /\ last.out = Id1

(***************************************************************************)
(* C24: for the lenses index(i) and safeIndex(i) and any integer i: get    *)
(* returns absent for a source that is no array or when i < 0 or           *)
(* i >= length, and the i-th element otherwise; set on a source that is no *)
(* array returns the one-element array [item]; set and modify on an array  *)
(* return a new array that has the length of the source and differs from   *)
(* it only in slot i, and the source array is not modified.                *)
(***************************************************************************)
IsIndexCall == last.op \in LensOps /\ last.arg.lens[1] \in {"index", "safeIndex"}

\* the source of the last lens call was an array before the call
SourceWasArray == IsRef(last.arg.s) /\ last.pre.heap[last.arg.s].kind = "array"

\* the last lens call returned a new array of the source's length that
\* differs from the source at most in slot i (from 0)
NewArrayDiffersOnlyAt(i) ==
  /\ last.out > Len(last.pre.heap)
  /\ heap[last.out].kind = "array"
  /\ Len(heap[last.out].elems) = Len(last.pre.heap[last.arg.s].elems)
  /\ \A j \in DOMAIN heap[last.out].elems :
       j # i + 1 => heap[last.out].elems[j] = last.pre.heap[last.arg.s].elems[j]
  /\ Content(heap[last.arg.s]) = last.pre.heap[last.arg.s]

C24_IndexLens ==
  IsIndexCall =>
    LET i == last.arg.lens[3]
        inRange == SourceWasArray /\ i >= 0 /\ i < Len(last.pre.heap[last.arg.s].elems)
    IN CASE last.op = "lens.get" ->
              last.out = (IF inRange THEN last.pre.heap[last.arg.s].elems[i + 1] ELSE Null)
         [] ~SourceWasArray /\ last.op = "lens.set" ->
              /\ last.out > Len(last.pre.heap)
              /\ heap[last.out].kind = "array"
              /\ heap[last.out].elems = <<last.arg.a>>
         [] ~SourceWasArray -> TRUE
         [] OTHER -> NewArrayDiffersOnlyAt(i)

\* what does hold: the claim for an index inside the array; outside it
\* modify returns the source itself, and the source is never modified
C24_IndexLensInRange ==
  IsIndexCall =>
    LET i == last.arg.lens[3]
        inRange == SourceWasArray /\ i >= 0 /\ i < Len(last.pre.heap[last.arg.s].elems)
    IN /\ \A a \in DOMAIN last.pre.heap : Content(heap[a]) = last.pre.heap[a]
       /\ CASE last.op = "lens.get" ->
                 last.out = (IF inRange THEN last.pre.heap[last.arg.s].elems[i + 1] ELSE Null)
            [] ~SourceWasArray /\ last.op = "lens.set" ->
                 /\ last.out > Len(last.pre.heap)
                 /\ heap[last.out].elems = <<last.arg.a>>
            [] ~SourceWasArray -> last.out = last.arg.s
            [] inRange ->
                 /\ NewArrayDiffersOnlyAt(i)
                 /\ heap[last.out].elems[i + 1] =
                      (IF last.op = "lens.set" THEN last.arg.a
                       ELSE LensFn(last.arg.f, last.pre.heap[last.arg.s].elems[i + 1]))
            [] last.op = "lens.modify" -> last.out = last.arg.s
            [] OTHER -> last.out > Len(last.pre.heap)

(***************************************************************************)
(* C25: for the lens find(p) and any array arr: get returns the first      *)
(* element (lowest index) satisfying p, or absent if none does or the      *)
(* source is no array; set(arr, x) returns a new array with only the first *)
(* matching element replaced by x or, if no element matches, a copy of arr *)
(* with x appended at the end; modify(arr, f) replaces only the first      *)
(* match by f(match) in a new array, or returns arr itself if no element   *)
(* matches.                                                                *)
(***************************************************************************)
IsFindCall == last.op \in LensOps /\ last.arg.lens[1] = "find"

\* the indexes (from 1) of the elements of the source that satisfy p
Hits ==
  {j \in DOMAIN last.pre.heap[last.arg.s].elems :
     LensPred(last.arg.lens[2], last.pre.heap, last.pre.heap[last.arg.s].elems[j])}

C25_FindLens ==
  IsFindCall =>
    LET elems == last.pre.heap[last.arg.s].elems
        m == CHOOSE j \in Hits : \A k \in Hits : j <= k
    IN CASE last.op = "lens.get" ->
              last.out = (IF SourceWasArray /\ Hits # {} THEN elems[m] ELSE Null)
         [] ~SourceWasArray -> TRUE
         [] Hits = {} /\ last.op = "lens.set" ->
              /\ last.out > Len(last.pre.heap)
              /\ heap[last.out].kind = "array"
              /\ heap[last.out].elems = Append(elems, last.arg.a)
              /\ Content(heap[last.arg.s]) = last.pre.heap[last.arg.s]
         [] Hits = {} -> last.out = last.arg.s /\ Snapshot(heap) = last.pre.heap
         [] OTHER ->
              /\ NewArrayDiffersOnlyAt(m - 1)
              /\ heap[last.out].elems[m] =
                   (IF last.op = "lens.set" THEN last.arg.a ELSE LensFn(last.arg.f, elems[m]))

\* set on the three records with a predicate the second and the third
\* satisfy: only the second is replaced
C25_Witness ==
  /\ IsFindCall
  /\ last.op = "lens.set"
  /\ last.arg.lens[2] = "noNested"
  /\ last.arg.s = InputArr
  /\ heap[last.out].elems = <<Rec1, NameX, Rec3>>

C25_WitnessAppend ==
  /\ IsFindCall
  /\ last.op = "lens.set"
  /\ last.arg.lens[2] = "none"
  /\ heap[last.out].elems = <<Rec1, Rec2, Rec3, NameX>>

C25_WitnessModifyNone ==
  /\ IsFindCall
  /\ last.op = "lens.modify"
  /\ last.arg.lens[2] = "none"
  /\ last.arg.s = InputArr
  /\ last.out = InputArr

(***************************************************************************)
(* C26: for the lenses prop(k) and safeProp(k): get returns absent when    *)
(* the source is null or undefined or field k is undefined; set on a null  *)
(* or undefined source returns an object containing only field k, and on a *)
(* present source a shallow copy that differs from the source only in      *)
(* field k; modify returns the source itself, unchanged, when the source   *)
(* is absent or field k is undefined.                                      *)
(***************************************************************************)
IsPropCall == last.op \in LensOps /\ last.arg.lens[1] \in {"prop", "safeProp"}

\* field key of the source of the last lens call, before the call
SourceField(key) ==
  IF IsRef(last.arg.s) /\ last.pre.heap[last.arg.s].kind = "object"
  THEN last.pre.heap[last.arg.s].fields[key]
  ELSE Undefined

C26_PropLens ==
  IsPropCall =>
    LET k == last.arg.lens[2]
        absent == IsNullish(last.arg.s) \/ SourceField(k) = Undefined
    IN /\ \A a \in DOMAIN last.pre.heap : Content(heap[a]) = last.pre.heap[a]
       /\ CASE last.op = "lens.get" ->
                 /\ absent => last.out = Null
                 /\ ~absent => last.out = SourceField(k)
            [] last.op = "lens.set" ->
                 /\ last.out > Len(last.pre.heap)
                 /\ heap[last.out].kind = "object"
                 /\ heap[last.out].fields[k] = last.arg.a
                 /\ \A f \in Fields \ {k} : heap[last.out].fields[f] = SourceField(f)
            [] OTHER ->
                 /\ absent => last.out = last.arg.s /\ Len(heap) = Len(last.pre.heap)
                 /\ ~absent =>
                      /\ last.out > Len(last.pre.heap)
                      /\ heap[last.out].fields[k] = LensFn(last.arg.f, SourceField(k))
                      /\ \A f \in Fields \ {k} : heap[last.out].fields[f] = SourceField(f)

\* set of name on a record that has a name, a _key and a nested
C26_Witness ==
  /\ IsPropCall
  /\ last.op = "lens.set"
  /\ last.arg.s = Rec1
  /\ last.arg.lens[2] = "name"
  /\ heap[last.out].fields["name"] = NameX
  /\ heap[last.out].fields["nested"] = Nested1

\* set on undefined: an object with the one field
C26_WitnessAbsent ==
  /\ IsPropCall
  /\ last.op = "lens.set"
  /\ last.arg.s = Undefined
  /\ heap[last.out].fields = [NoFields EXCEPT !["items"] = NameX]

\* modify on a record without the field: the record itself
C26_WitnessModifySame ==
  /\ IsPropCall
  /\ last.op = "lens.modify"
  /\ last.arg.s = Rec2
  /\ last.arg.lens[2] = "nested"
  /\ last.out = Rec2

(***************************************************************************)
(* C27: lens operations are pure with respect to their source: for every   *)
(* lens built from prop, safeProp, index, safeIndex, find and compose and  *)
(* every source s, get(s), set(s, x) and modify(s, f) leave s and every    *)
(* value nested inside s unchanged; a change is visible only in the value  *)
(* returned.                                                               *)
(***************************************************************************)
C27_LensOperationsPure ==
  last.op \in LensOps =>
    /\ Len(heap) >= Len(last.pre.heap)
    /\ \A a \in DOMAIN last.pre.heap : Content(heap[a]) = last.pre.heap[a]
    /\ last.op = "lens.get" => Len(heap) = Len(last.pre.heap)

\* set through nested.items.[1] of a record: three new values, the record,
\* its nested and the items as they were
C27_Witness ==
  /\ last.op = "lens.set"
  /\ last.arg.lens[1] = "compose"
  /\ last.arg.s = Rec1
  /\ Len(heap) >= Len(last.pre.heap) + 3
  /\ last.out > Len(last.pre.heap)
  /\ heap[Items1].elems = <<ItemA>>

(***************************************************************************)
(* C28: get and modify are consistent: for every lens made by              *)
(* lens(getter, setter), prop, safeProp, index, safeIndex, find and        *)
(* compose, every source s and function f, modify(s, f) equals             *)
(* set(s, f(get(s))) when get(s) is present, and returns s unchanged,      *)
(* without invoking f, when get(s) is absent; in particular a field or an  *)
(* element whose value is null is treated the same way by get and modify.  *)
(***************************************************************************)
IsModifyOfBuiltLens ==
  last.op = "lens.modify" /\ last.arg.lens[1] \notin {"id", "L.id"}

\* set(s, f(get(s))), from the state after the call (the operations being
\* pure, a value made by the call is no part of s)
SetOfGet ==
  LensSet(last.arg.lens, heap, last.arg.s,
          LensFn(last.arg.f, LensGet(last.arg.lens, heap, last.arg.s)))

C28_ModifyIsSetOfGet ==
  IsModifyOfBuiltLens =>
    IF LensGet(last.arg.lens, heap, last.arg.s) # Null
    THEN Deep(heap, last.out) = Deep(SetOfGet.h, SetOfGet.v)
    ELSE last.out = last.arg.s /\ Len(heap) = Len(last.pre.heap)

\* what does hold: modify is set of f(get) when get is present, and when
\* get is absent modify returns the source unless a field or an element on
\* the path is null, where modify applies f to null
C28_ModifyIsSetOfGetWhenPresent ==
  (IsModifyOfBuiltLens /\ LensGet(last.arg.lens, heap, last.arg.s) # Null) =>
    Deep(heap, last.out) = Deep(SetOfGet.h, SetOfGet.v)

(***************************************************************************)
(* C29: on the wrapper returned by from(source) / view(source) with no     *)
(* further focusing (the identity lens), and on the identity lens L.id(),  *)
(* get returns the source itself, set(v) returns v, and modify(f) returns  *)
(* f(source).                                                              *)
(***************************************************************************)
IsIdentityCall == last.op \in LensOps /\ last.arg.lens[1] \in {"id", "L.id"}

C29_IdentityLens ==
  IsIdentityCall =>
    CASE last.op = "lens.get" -> last.out = last.arg.s
      [] last.op = "lens.set" -> last.out = last.arg.a
      [] OTHER -> last.out = LensFn(last.arg.f, last.arg.s)

\* what does hold: get and set are the identity's, and modify never returns
\* f(source): view's returns f itself, L.id()'s returns f(null)
C29_IdentityGetSet ==
  IsIdentityCall =>
    CASE last.op = "lens.get" -> last.out = last.arg.s
      [] last.op = "lens.set" -> last.out = last.arg.a
      [] last.arg.lens[1] = "id" -> last.out = FnValue
      [] OTHER -> last.out = LensFn(last.arg.f, Null)

(***************************************************************************)
(* C30: a Collection does not alias the array it was constructed from:     *)
(* after new Collection(values), a later push, splice or index assignment  *)
(* by the caller on that input array leaves the Collection's length, the   *)
(* contents of raw() and the records returned by at(i) unchanged.          *)
(***************************************************************************)
CallerOps == {"caller.push", "caller.splice", "caller.assign"}

C30_InputArrayNotAliased ==
  /\ \A i \in Collections : insts[i].values # InputArr
  /\ last.op \in CallerOps =>
       \A i \in Collections :
         LET before == last.pre.heap[insts[i].values].elems
         IN /\ insts[i] = last.pre.insts[i]
            /\ length(heap, insts[i]) = Len(before)
            /\ heap[insts[i].values].elems = before
            /\ \A index \in Indexes :
                 LET r == Collection_at(st0, i, index)
                 IN r.insts[r.result].value = ArrayIndex(before, index)

\* the caller has pushed onto and assigned into its array after a
\* collection was constructed from the three records: the array has
\* changed, the collection holds the three records
C30_Witness ==
  /\ last.op \in CallerOps
  /\ Len(heap[InputArr].elems) = 4
  /\ heap[InputArr].elems[1] = NameX
  /\ \E i \in Collections : heap[insts[i].values].elems = <<Rec1, Rec2, Rec3>>

====
